---- MODULE Spec2Model ----
(***************************************************************************)
(* Order-volume forecasting of the car-service desktop application:        *)
(* ForecastWindow.calculate_forecast and ForecastWindow.recursive_forecast *)
(* (src/utils.py) over the open_date column of table requests (src/db.py). *)
(*                                                                         *)
(* Numbers that Python holds as floats rounded to 2 decimals are held here *)
(* as integers counting hundredths (6.67 is 667); an order count c is the  *)
(* integer c, and 100 * c when it enters a mean.                           *)
(***************************************************************************)
EXTENDS Integers, Sequences, FiniteSets, Bags, TLC

(***************************************************************************)
(* Bounds of the model.                                                    *)
(***************************************************************************)
MaxDates == 4
MaxWindow == 3
TargetSpan == 8
MaxHalves == 12
MaxActual == 4
MaxOrders == 2
WideGaps == 2
WideAhead == 2
WideCounts == 2

(***************************************************************************)
(* Program constants.                                                      *)
(***************************************************************************)
MinWindowSize == 2
MaxWindowSize == 12
MinYearSpin == 2020
MaxYearSpin == 2030
MINYEAR == 1

(***************************************************************************)
(* Stored open_date values.  A TEXT value is a sequence of characters; the *)
(* column has no NOT NULL constraint, so a row may also hold NULL.         *)
(***************************************************************************)
NULL == <<"NULL">>

d_2023_12_05 == <<"2","0","2","3","-","1","2","-","0","5">>
d_2024_1_5 == <<"2","0","2","4","-","1","-","5">>
d_2024_03_10 == <<"2","0","2","4","-","0","3","-","1","0">>
d_2024_02_30 == <<"2","0","2","4","-","0","2","-","3","0">>
d_2024_13_01 == <<"2","0","2","4","-","1","3","-","0","1">>
d_2024_01_1x == <<"2","0","2","4","-","0","1","-","1","x">>

TextValues ==
    { d_2023_12_05, d_2024_1_5, d_2024_03_10,
      d_2024_02_30, d_2024_13_01, d_2024_01_1x }

OpenDateValues == TextValues \cup {NULL}

\* two more dates, stored by the tables below only
d_2024_02_14 == <<"2","0","2","4","-","0","2","-","1","4">>
d_2024_04_20 == <<"2","0","2","4","-","0","4","-","2","0">>

\* 2, 4, 6 and 8 requests opened in 01/2024 .. 04/2024
Counts2468 ==
    [v \in {d_2024_1_5, d_2024_02_14, d_2024_03_10, d_2024_04_20} |->
        CASE v = d_2024_1_5 -> 2
          [] v = d_2024_02_14 -> 4
          [] v = d_2024_03_10 -> 6
          [] v = d_2024_04_20 -> 8]

\* 2 requests opened in each of 12/2023 .. 03/2024
EqualCounts ==
    [v \in {d_2023_12_05, d_2024_1_5, d_2024_02_14, d_2024_03_10} |-> 2]

\* 1, 1, 2 and 1 requests opened in 01/2024 .. 04/2024
Counts1121 ==
    [v \in {d_2024_1_5, d_2024_02_14, d_2024_03_10, d_2024_04_20} |->
        IF v = d_2024_03_10 THEN 2 ELSE 1]

LargerTables == {Counts2468, EqualCounts, Counts1121}

(***************************************************************************)
(* Characters: code points (SQLite compares TEXT bytewise) and digits.     *)
(***************************************************************************)
DigitChars == <<"0","1","2","3","4","5","6","7","8","9">>

Digits == { DigitChars[i] : i \in 1..10 }

DigitTable == [c \in Digits |-> (CHOOSE i \in 1..10 : DigitChars[i] = c) - 1]

IsDigit(c) == c \in Digits

DigitVal(c) == DigitTable[c]

CharCode(c) ==
    IF IsDigit(c) THEN 48 + DigitVal(c)
    ELSE IF c = " " THEN 32
    ELSE IF c = "-" THEN 45
    ELSE 120

(***************************************************************************)
(* SELECT open_date FROM requests ORDER BY open_date: NULL sorts first,    *)
(* TEXT in bytewise lexicographic order.                                   *)
(***************************************************************************)
RECURSIVE TextLess(_, _)
TextLess(a, b) ==
    IF b = <<>> THEN FALSE
    ELSE IF a = <<>> THEN TRUE
    ELSE IF CharCode(Head(a)) # CharCode(Head(b))
         THEN CharCode(Head(a)) < CharCode(Head(b))
    ELSE TextLess(Tail(a), Tail(b))

SqlLess(a, b) ==
    IF b = NULL THEN FALSE
    ELSE IF a = NULL THEN TRUE
    ELSE TextLess(a, b)

Repeat(v, k) == [i \in 1..k |-> v]

RECURSIVE SelectOpenDates(_)
SelectOpenDates(table) ==
    IF BagToSet(table) = {} THEN <<>>
    ELSE LET least == CHOOSE v \in BagToSet(table) :
                          \A u \in BagToSet(table) : u = v \/ SqlLess(v, u)
         IN  Repeat(least, CopiesIn(least, table))
                 \o SelectOpenDates([u \in BagToSet(table) \ {least} |-> table[u]])

(***************************************************************************)
(* datetime.strptime(date_str, "%Y-%m-%d").date()                          *)
(* %Y is \d\d\d\d, %m is 1[0-2]|0[1-9]|[1-9], %d is                        *)
(* 3[0-1]|[1-2]\d|0[1-9]|[1-9]| [1-9]; the first alternative that matches  *)
(* is taken, text left over after %d is an error, and the date must exist  *)
(* in the calendar.  ok = FALSE stands for ValueError.                     *)
(***************************************************************************)
ValueError == [ok |-> FALSE, year |-> 0, month |-> 0, day |-> 0]

At(s, i) == IF i \in 1..Len(s) THEN s[i] ELSE "$"

InRange(c, lo, hi) == IsDigit(c) /\ DigitVal(c) \in lo..hi

\* [len, val] of the month field starting at position i; len = 0: no match
MatchMonth(s, i) ==
    IF At(s, i) = "1" /\ InRange(At(s, i + 1), 0, 2)
        THEN [len |-> 2, val |-> 10 + DigitVal(At(s, i + 1))]
    ELSE IF At(s, i) = "0" /\ InRange(At(s, i + 1), 1, 9)
        THEN [len |-> 2, val |-> DigitVal(At(s, i + 1))]
    ELSE IF InRange(At(s, i), 1, 9)
        THEN [len |-> 1, val |-> DigitVal(At(s, i))]
    ELSE [len |-> 0, val |-> 0]

MatchDay(s, i) ==
    IF At(s, i) = "3" /\ InRange(At(s, i + 1), 0, 1)
        THEN [len |-> 2, val |-> 30 + DigitVal(At(s, i + 1))]
    ELSE IF InRange(At(s, i), 1, 2) /\ IsDigit(At(s, i + 1))
        THEN [len |-> 2, val |-> 10 * DigitVal(At(s, i)) + DigitVal(At(s, i + 1))]
    ELSE IF At(s, i) = "0" /\ InRange(At(s, i + 1), 1, 9)
        THEN [len |-> 2, val |-> DigitVal(At(s, i + 1))]
    ELSE IF InRange(At(s, i), 1, 9)
        THEN [len |-> 1, val |-> DigitVal(At(s, i))]
    ELSE IF At(s, i) = " " /\ InRange(At(s, i + 1), 1, 9)
        THEN [len |-> 2, val |-> DigitVal(At(s, i + 1))]
    ELSE [len |-> 0, val |-> 0]

IsLeap(y) == y % 4 = 0 /\ (y % 100 # 0 \/ y % 400 = 0)

DaysInMonth(y, m) ==
    IF m = 2 THEN (IF IsLeap(y) THEN 29 ELSE 28)
    ELSE IF m \in {4, 6, 9, 11} THEN 30
    ELSE 31

strptime(s) ==
    IF ~(\A i \in 1..4 : IsDigit(At(s, i))) \/ At(s, 5) # "-" THEN ValueError
    ELSE LET y  == 1000 * DigitVal(s[1]) + 100 * DigitVal(s[2])
                       + 10 * DigitVal(s[3]) + DigitVal(s[4])
             mm == MatchMonth(s, 6)
             dp == 6 + mm.len + 1
             dd == MatchDay(s, dp)
         IN  IF mm.len = 0 \/ At(s, 6 + mm.len) # "-" THEN ValueError
             ELSE IF dd.len = 0 \/ dp + dd.len - 1 # Len(s) THEN ValueError
             ELSE IF y < MINYEAR \/ dd.val > DaysInMonth(y, mm.val) THEN ValueError
             ELSE [ok |-> TRUE, year |-> y, month |-> mm.val, day |-> dd.val]

(***************************************************************************)
(* Month keys (year, month) and Python's tuple order on them.              *)
(***************************************************************************)
TupleLess(a, b) == a[1] < b[1] \/ (a[1] = b[1] /\ a[2] < b[2])

\* sorted comparing the month number before the year
RECURSIVE sorted_monthFirst(_)
sorted_monthFirst(keys) ==
    IF keys = {} THEN <<>>
    ELSE LET least == CHOOSE k \in keys :
                          \A j \in keys : j = k \/ TupleLess(<<k[2], k[1]>>, <<j[2], j[1]>>)
         IN  <<least>> \o sorted_monthFirst(keys \ {least})

\* sorted(monthly_counts.keys())
RECURSIVE sorted(_)
sorted(keys) ==
    IF keys = {} THEN <<>>
    ELSE LET least == CHOOSE k \in keys : \A j \in keys : j = k \/ TupleLess(k, j)
         IN  <<least>> \o sorted(keys \ {least})

\* list.index(x): 0-based position of x
IndexOf(seq, x) == (CHOOSE i \in 1..Len(seq) : seq[i] = x) - 1

\* seq[lo:hi] with Python's 0-based half-open bounds
Slice(seq, lo, hi) == [i \in 1..(hi - lo) |-> seq[lo + i]]

RECURSIVE Sum(_)
Sum(seq) == IF seq = <<>> THEN 0 ELSE Head(seq) + Sum(Tail(seq))

Max(a, b) == IF a >= b THEN a ELSE b

(***************************************************************************)
(* The aggregation loop of calculate_forecast.  A date_str that strptime   *)
(* rejects with ValueError is skipped; a NULL makes strptime raise         *)
(* TypeError, which the loop does not catch: raised = TRUE and the counts  *)
(* are those built before it.                                              *)
(***************************************************************************)
\* datetime.strptime(date_str, "%Y-%m-%d") for each string that a table may
\* hold, worked out once
Parsed == [v \in TextValues \cup {d_2024_02_14, d_2024_04_20} |-> strptime(v)]

\* Increment storing 1 whatever the key held
Increment_reset(mc, key) == [k \in (DOMAIN mc) \cup {key} |-> IF k = key THEN 1 ELSE mc[k]]

\* "monthly_counts[month_key] = monthly_counts.get(month_key, 0) + 1"
Increment(mc, key) ==
    [k \in (DOMAIN mc) \cup {key} |->
        IF k = key THEN (IF key \in DOMAIN mc THEN mc[key] ELSE 0) + 1 ELSE mc[k]]

\* AggregateLoop with "break" in place of "continue"
RECURSIVE AggregateLoop_break(_, _)
AggregateLoop_break(ds, mc) ==
    IF ds = <<>> THEN [raised |-> FALSE, monthly_counts |-> mc]
    ELSE IF Head(ds) = NULL THEN [raised |-> TRUE, monthly_counts |-> mc]
    ELSE LET date == Parsed[Head(ds)]
         IN  IF date.ok
                 THEN AggregateLoop_break(Tail(ds), Increment(mc, <<date.year, date.month>>))
                 ELSE [raised |-> FALSE, monthly_counts |-> mc]

RECURSIVE AggregateLoop(_, _)
AggregateLoop(ds, mc) ==
    IF ds = <<>> THEN [raised |-> FALSE, monthly_counts |-> mc]
    ELSE IF Head(ds) = NULL THEN [raised |-> TRUE, monthly_counts |-> mc]
    ELSE LET date == Parsed[Head(ds)]
         IN  IF date.ok
                 THEN AggregateLoop(Tail(ds), Increment(mc, <<date.year, date.month>>))
                 ELSE AggregateLoop(Tail(ds), mc)

(***************************************************************************)
(* round(mean(values), 2) on hundredths.                                   *)
(*                                                                         *)
(* statistics.mean adds the doubles exactly and rounds the quotient to a   *)
(* double; round(x, 2) then rounds the exact binary value of x.  When the  *)
(* decimal mean is not half-way between two hundredths the result is the   *)
(* nearest hundredth.  When it is half-way, the result depends on which    *)
(* side of the half-way point the double lies, which is decided by the     *)
(* representation errors of the operands (RepErr, in hundredths of the     *)
(* operand's unit in the last place); a double exactly on the half-way     *)
(* point is rounded to the even hundredth.                                 *)
(***************************************************************************)
MantissaBits == 52
MinExponent == -7

RECURSIVE Pow2(_)
Pow2(k) == IF k = 0 THEN 1 ELSE 2 * Pow2(k - 1)

\* 2^p mod m
RECURSIVE PowMod(_, _)
PowMod(p, m) == IF p = 0 THEN 1 % m ELSE (2 * PowMod(p - 1, m)) % m

\* floor(log2(num / den)) for num > 0
RECURSIVE Exponent(_, _)
Exponent(num, den) ==
    IF num >= 2 * den THEN Exponent(num, 2 * den) + 1
    ELSE IF num < den THEN Exponent(2 * num, den) - 1
    ELSE 0

\* the element of a one-element set; The({e(x) : x \in {d}}) is e(d) with d
\* evaluated once
The(S) == CHOOSE x \in S : TRUE

\* double(v / 100) - v / 100, in units of ulp(v / 100) / 100
RepErr(v) ==
    IF v = 0 THEN 0
    ELSE The({ IF r < 50 THEN 0 - r ELSE 100 - r :
               r \in {((v % 100) * PowMod(MantissaBits - Exponent(v, 100), 100)) % 100} })

\* sum of the representation errors, in units of 2^(MinExponent - 52) / 100
RECURSIVE SumErr(_)
SumErr(vals) ==
    IF vals = <<>> THEN 0
    ELSE (IF Head(vals) = 0 THEN 0
          ELSE RepErr(Head(vals)) * Pow2(Exponent(Head(vals), 100) - MinExponent))
         + SumErr(Tail(vals))

\* nearest integer to a / b (b > 0); on a tie the result r has r + oddFloor even
RoundDiv(a, b, oddFloor) ==
    LET fl  == a \div b
        rem == a % b
    IN  IF 2 * rem > b THEN fl + 1
        ELSE IF 2 * rem = b /\ (fl + oddFloor) % 2 = 1 THEN fl + 1
        ELSE fl

\* sign of double(mean) - (2q+1)/200 when the decimal mean is (2q+1)/200
TieSide(vals, q) ==
    LET n == Len(vals)
        o == 2 * q + 1
        AtExponent(eM, E) ==
            The({ LET R  == ((o % 200) * p200) % 200
                      D  == 200 * n * P
                      N  == R * n * P + 2 * E
                      m0 == (((o % 400) * p400) % 400) \div 200
                  IN  IF o = 25 /\ E < 0
                          THEN RoundDiv(2 * N, D, 0)
                          ELSE RoundDiv(N, D, m0) * D - R * n * P :
                  P \in {Pow2(eM - MinExponent)},
                  p200 \in {PowMod(MantissaBits - eM, 200)},
                  p400 \in {PowMod(MantissaBits - eM, 400)} })
    IN  The({ AtExponent(eM, E) : eM \in {Exponent(o, 200)}, E \in {SumErr(vals)} })

\* round_mean cutting the mean off after the second decimal
round_mean_truncated(vals) == Sum(vals) \div Len(vals)

round_mean(vals) ==
    LET n == Len(vals)
        S == Sum(vals)
        q == S \div n
        r == S % n
    IN  IF 2 * r > n THEN q + 1
        ELSE IF 2 * r < n THEN q
        ELSE The({ IF side > 0 THEN q + 1
                   ELSE IF side < 0 THEN q
                   ELSE IF q % 2 = 0 THEN q ELSE q + 1 :
                   side \in {TieSide(vals, q)} })

(***************************************************************************)
(* Pieces of calculate_forecast after the aggregation.                     *)
(***************************************************************************)
\* counts = [monthly_counts[month] for month in sorted_months]
counts_of(mc, sm) == [i \in 1..Len(sm) |-> mc[sm[i]]]

Hundredths(cs) == [i \in 1..Len(cs) |-> 100 * cs[i]]

\* moving_averages_of dividing the sum of a window by window_size - 1
moving_averages_of_shortDivisor(cs, w) ==
    [j \in 1..(Len(cs) - w + 1) |->
        (100 * Sum(Slice(cs, (j + w - 2) - w + 1, (j + w - 2) + 1))) \div (w - 1)]

\* moving_averages_of with the loop "for i in range(window_size, len(counts))"
moving_averages_of_fromWindow(cs, w) ==
    [j \in 1..(Len(cs) - w) |->
        round_mean(Hundredths(Slice(cs, (j + w - 1) - w + 1, (j + w - 1) + 1)))]

\* the loop "for i in range(window_size - 1, len(counts))"
moving_averages_of(cs, w) ==
    [j \in 1..(Len(cs) - w + 1) |->
        round_mean(Hundredths(Slice(cs, (j + w - 2) - w + 1, (j + w - 2) + 1)))]

\* direct_forecast reading the moving average that ends at the target itself
direct_forecast_alignedAtTarget(sm, cs, mavg, target, w) ==
    LET target_index == IndexOf(sm, target)
    IN  IF target_index >= w
            THEN mavg[(target_index - w) + 2]
            ELSE IF target_index > 0
                     THEN round_mean(Hundredths(Slice(cs, 0, target_index)))
                     ELSE 0

\* direct_forecast averaging counts[:target_index + 1]
direct_forecast_inclusive(sm, cs, mavg, target, w) ==
    LET target_index == IndexOf(sm, target)
    IN  IF target_index >= w
            THEN mavg[(target_index - w) + 1]
            ELSE round_mean(Hundredths(Slice(cs, 0, target_index + 1)))

\* direct_forecast giving 0 to every target that has fewer than window_size
\* months before it
direct_forecast_zeroShort(sm, cs, mavg, target, w) ==
    LET target_index == IndexOf(sm, target)
    IN  IF target_index >= w
            THEN mavg[(target_index - w) + 1]
            ELSE 0

\* direct_forecast reading the first moving average whatever the target
direct_forecast_firstAverage(sm, cs, mavg, target, w) ==
    LET target_index == IndexOf(sm, target)
    IN  IF target_index >= w
            THEN mavg[1]
            ELSE IF target_index > 0
                     THEN round_mean(Hundredths(Slice(cs, 0, target_index)))
                     ELSE 0

\* branch "if target_date in monthly_counts": forecast of an observed month
direct_forecast(sm, cs, mavg, target, w) ==
    LET target_index == IndexOf(sm, target)
    IN  IF target_index >= w
            THEN mavg[(target_index - w) + 1]
            ELSE IF target_index > 0
                     THEN round_mean(Hundredths(Slice(cs, 0, target_index)))
                     ELSE 0

\* deviation_of with the difference taken the other way round
deviation_of_reversed(f, a) == IF a # 0 THEN <<100 * a - f, a>> ELSE <<0, 1>>

\* deviation_of giving 100 percent for an actual count of 0
deviation_of_fullWhenZero(f, a) == IF a # 0 THEN <<f - 100 * a, a>> ELSE <<100, 1>>

\* (forecast - actual) / actual * 100 if actual != 0 else 0, as numerator and
\* denominator of the percentage: (f/100 - a) / a * 100 = (f - 100 a) / a
deviation_of(f, a) == IF a # 0 THEN <<f - 100 * a, a>> ELSE <<0, 1>>

\* prev_months_of rolling the year over when the month reaches 1, not 0
RECURSIVE prev_months_of_rollAtOne(_, _, _)
prev_months_of_rollAtOne(current_year, current_month, k) ==
    IF k = 0 THEN <<>>
    ELSE LET m1 == current_month - 1
             ny == IF m1 <= 1 THEN current_year - 1 ELSE current_year
             nm == IF m1 <= 1 THEN 12 ELSE m1
         IN  <<<<ny, nm>>>> \o prev_months_of_rollAtOne(ny, nm, k - 1)

\* prev_months_of without "current_year -= 1"
RECURSIVE prev_months_of_sameYear(_, _, _)
prev_months_of_sameYear(current_year, current_month, k) ==
    IF k = 0 THEN <<>>
    ELSE LET m1 == current_month - 1
             nm == IF m1 = 0 THEN 12 ELSE m1
         IN  <<<<current_year, nm>>>> \o prev_months_of_sameYear(current_year, nm, k - 1)

\* the window_size calendar months before target, nearest first
RECURSIVE prev_months_of(_, _, _)
prev_months_of(current_year, current_month, k) ==
    IF k = 0 THEN <<>>
    ELSE LET m1 == current_month - 1
             ny == IF m1 = 0 THEN current_year - 1 ELSE current_year
             nm == IF m1 = 0 THEN 12 ELSE m1
         IN  <<<<ny, nm>>>> \o prev_months_of(ny, nm, k - 1)

\* before_first comparing the years only
before_first_yearOnly(month, sm) == month[1] < sm[1][1]

\* "month < sorted_months[0]"
before_first(month, sm) == TupleLess(month, sm[1])

\* recursive_forecast as a function of its arguments
RECURSIVE recursive_forecast(_, _, _, _)
recursive_forecast(sm, mc, target, w) ==
    LET prev_months == prev_months_of(target[1], target[2], w)
        values == [i \in 1..w |->
                      IF prev_months[i] \in DOMAIN mc THEN 100 * mc[prev_months[i]]
                      ELSE IF before_first(prev_months[i], sm) THEN 0
                      ELSE recursive_forecast(sm, mc, prev_months[i], w)]
    IN  round_mean(values)

(***************************************************************************)
(* f"{deviation:+.2f}" for the deviation num / den (den > 0): the sign,    *)
(* which is "-" for every negative value, and the hundredths of a percent  *)
(* of the magnitude.  The double that Python formats lies within a few     *)
(* units in the last place of num / den, so the text is the one of the     *)
(* nearest hundredth; when num / den is half-way between two hundredths    *)
(* the double may lie on either side, and both texts are possible.         *)
(***************************************************************************)
Abs(x) == IF x < 0 THEN 0 - x ELSE x

format_plus_2f(d) ==
    LET sign == IF d[1] < 0 THEN "-" ELSE "+"
        fl   == (100 * Abs(d[1])) \div d[2]
        rem  == (100 * Abs(d[1])) % d[2]
    IN  { [sign |-> sign, hundredths |-> h] :
            h \in IF 2 * rem < d[2] THEN {fl}
                  ELSE IF 2 * rem > d[2] THEN {fl + 1}
                  ELSE {fl, fl + 1} }

(***************************************************************************)
(* What calculate_forecast puts in results_text.  The deviation line of    *)
(* the report is given as the set of the texts it may hold.                *)
(***************************************************************************)
NoText == [kind |-> "Empty"]

NoData == [kind |-> "NoData"]

Insufficient(w, n) == [kind |-> "Insufficient", required |-> w, available |-> n]

\* optional values: <<>> is None, <<v>> is the value v
None == <<>>

\* Report writing the line of the actual count, as 0, also when actual is None
Report_actualAlways(sm, cs, target, f, a, d) ==
    [kind |-> "Report",
     history |-> [i \in 1..Len(sm) |-> <<sm[i][1], sm[i][2], cs[i]>>],
     target |-> target,
     forecast |-> Max(f, 0),
     actual |-> IF a # None THEN a ELSE <<0>>,
     deviation |-> IF a # None THEN <<format_plus_2f(d[1])>> ELSE None]

Report(sm, cs, target, f, a, d) ==
    [kind |-> "Report",
     history |-> [i \in 1..Len(sm) |-> <<sm[i][1], sm[i][2], cs[i]>>],
     target |-> target,
     forecast |-> Max(f, 0),
     actual |-> a,
     deviation |-> IF a # None THEN <<format_plus_2f(d[1])>> ELSE None]

\* handler_path without the test "if not dates"
handler_path_noEmptyCheck(ds, raised, mc, cs, target, w) ==
    IF raised THEN "type_error"
    ELSE IF Len(cs) < w THEN "insufficient"
    ELSE IF target \in DOMAIN mc THEN "observed"
    ELSE "recursive"

\* handler_path that looks the target up before it tests len(counts)
handler_path_targetFirst(ds, raised, mc, cs, target, w) ==
    IF ds = <<>> THEN "no_data"
    ELSE IF raised THEN "type_error"
    ELSE IF target \in DOMAIN mc THEN "observed"
    ELSE IF Len(cs) < w THEN "insufficient"
    ELSE "recursive"

(***************************************************************************)
(* The branch calculate_forecast takes, in the order of its tests.         *)
(***************************************************************************)
handler_path(ds, raised, mc, cs, target, w) ==
    IF ds = <<>> THEN "no_data"
    ELSE IF raised THEN "type_error"
    ELSE IF Len(cs) < w THEN "insufficient"
    ELSE IF target \in DOMAIN mc THEN "observed"
    ELSE "recursive"

TypeError == [kind |-> "TypeError"]

\* calculate_forecast as a function of the table and the three inputs: the
\* text it shows, or TypeError when it raises
Outcome(table, y, m, w) ==
    LET ds     == SelectOpenDates(table)
        agg    == AggregateLoop(ds, <<>>)
        mc     == agg.monthly_counts
        sm     == sorted(DOMAIN mc)
        cs     == counts_of(mc, sm)
        mavg   == moving_averages_of(cs, w)
        target == <<y, m>>
        f      == direct_forecast(sm, cs, mavg, target, w)
        path   == handler_path(ds, agg.raised, mc, cs, target, w)
    IN  CASE path = "no_data" -> NoData
          [] path = "type_error" -> TypeError
          [] path = "insufficient" -> Insufficient(w, Len(cs))
          [] path = "observed" ->
                Report(sm, cs, target, f, <<mc[target]>>,
                       <<deviation_of(f, mc[target])>>)
          [] path = "recursive" ->
                Report(sm, cs, target, recursive_forecast(sm, mc, target, w),
                       None, None)

(***************************************************************************)
(* The desk: accounts, sessions and orders (src/models.py, src/ui.py,      *)
(* SearchWindow in src/utils.py).  Texts that the program writes in        *)
(* Cyrillic are written here in Latin letters.  Names and dates are        *)
(* sequences of characters, "" and <<>> are empty inputs.                  *)
(***************************************************************************)
novyj == "novyj"                  \* 'новый'
v_rabote == "v rabote"            \* 'в работе'
zavershyon == "zavershyon"        \* 'завершён'
ne_ukazano == <<"ne ukazano">>    \* 'не указано'

\* items of the status combo box of EditOrderWindow
Statuses == {novyj, v_rabote, zavershyon}

n_Ann == <<"A","n","n">>
n_Anna == <<"A","n","n","a">>
n_Egor == <<"E","g","o","r">>
n_ZorkezAdmin == <<"Z","o","r","k","e","z"," ","A","d","m","i","n">>

\* the full names typed or picked in the forms
FullNames == {n_Ann, n_Anna}

\* the logins and passwords typed in the forms
Usernames == {"zorkez", "ann", "egor"}

Passwords == {"123qwe123", "pw"}

\* get_permissions with can_edit_status granted to Client as well
get_permissions_clientEditsStatus(role) ==
    CASE role = "Client" ->
            [orders |-> TRUE, clients |-> FALSE, employees |-> FALSE,
             can_edit_status |-> TRUE, can_edit_client_name |-> FALSE,
             can_edit_close_date |-> FALSE, can_view_forecast_button |-> FALSE]
      [] role = "Employee" ->
            [orders |-> TRUE, clients |-> TRUE, employees |-> FALSE,
             can_edit_status |-> TRUE, can_edit_client_name |-> TRUE,
             can_edit_close_date |-> TRUE, can_view_forecast_button |-> TRUE]
      [] role = "Admin" ->
            [orders |-> TRUE, clients |-> TRUE, employees |-> TRUE,
             can_edit_status |-> TRUE, can_edit_client_name |-> TRUE,
             can_edit_close_date |-> TRUE, can_view_forecast_button |-> TRUE]

\* get_permissions of Client, Employee and Admin
get_permissions(role) ==
    CASE role = "Client" ->
            [orders |-> TRUE, clients |-> FALSE, employees |-> FALSE,
             can_edit_status |-> FALSE, can_edit_client_name |-> FALSE,
             can_edit_close_date |-> FALSE, can_view_forecast_button |-> FALSE]
      [] role = "Employee" ->
            [orders |-> TRUE, clients |-> TRUE, employees |-> FALSE,
             can_edit_status |-> TRUE, can_edit_client_name |-> TRUE,
             can_edit_close_date |-> TRUE, can_view_forecast_button |-> TRUE]
      [] role = "Admin" ->
            [orders |-> TRUE, clients |-> TRUE, employees |-> TRUE,
             can_edit_status |-> TRUE, can_edit_client_name |-> TRUE,
             can_edit_close_date |-> TRUE, can_view_forecast_button |-> TRUE]

\* the user object built by check_credentials from a row, or for the
\* administrator from the fixed values
User(role, row) == [role |-> role, username |-> row.username, full_name |-> row.full_name]

AdminUser == [role |-> "Admin", username |-> "zorkez", full_name |-> n_ZorkezAdmin]

\* QDate values and QDate.toString("yyyy-MM-dd"), QDate.fromString(s, "yyyy-MM-dd")
QDate(y, m, d) == [valid |-> TRUE, year |-> y, month |-> m, day |-> d]

InvalidQDate == [valid |-> FALSE, year |-> 0, month |-> 0, day |-> 0]

\* the date a QDateEdit holds before setDate is given a valid date
DefaultQDate == QDate(2000, 1, 1)

TwoDigits(n) == <<DigitChars[(n \div 10) + 1], DigitChars[(n % 10) + 1]>>

toString(q) ==
    IF q.valid
        THEN TwoDigits(q.year \div 100) \o TwoDigits(q.year % 100) \o <<"-">>
                 \o TwoDigits(q.month) \o <<"-">> \o TwoDigits(q.day)
        ELSE <<>>

RECURSIVE Number(_, _, _)
Number(s, lo, hi) ==
    IF lo = hi THEN DigitVal(s[lo]) ELSE 10 * Number(s, lo, hi - 1) + DigitVal(s[hi])

fromString(s) ==
    IF /\ Len(s) = 10
       /\ \A i \in {1, 2, 3, 4, 6, 7, 9, 10} : IsDigit(s[i])
       /\ s[5] = "-" /\ s[8] = "-"
        THEN LET y == Number(s, 1, 4)
                 m == Number(s, 6, 7)
                 d == Number(s, 9, 10)
             IN  IF m \in 1..12 /\ d >= 1 /\ d <= DaysInMonth(y, m)
                     THEN QDate(y, m, d)
                     ELSE InvalidQDate
        ELSE InvalidQDate

\* QDateEdit.setDate(q) on a fresh widget: an invalid date is ignored
setDate(q) == IF q.valid THEN q ELSE DefaultQDate

\* the dates picked in open_date_edit and in close_date_edit
OpenDateEdits == {QDate(2024, 2, 14)}

CloseDateEdits == {QDate(2024, 4, 20)}

\* the car numbers typed: none, or one
CarNumbers == {"", "A001AA"}

\* SQL LIKE '%p%': p occurs in v, letters A-Z compared without case
UpperCase == <<"A","B","C","D","E","F","G","H","I","J","K","L","M",
               "N","O","P","Q","R","S","T","U","V","W","X","Y","Z">>

LowerCase == <<"a","b","c","d","e","f","g","h","i","j","k","l","m",
               "n","o","p","q","r","s","t","u","v","w","x","y","z">>

lower(c) ==
    IF \E i \in 1..26 : UpperCase[i] = c
        THEN LowerCase[CHOOSE i \in 1..26 : UpperCase[i] = c]
        ELSE c

Like(p, v) ==
    \E k \in 0..(Len(v) - Len(p)) : \A i \in 1..Len(p) : lower(v[k + i]) = lower(p[i])

\* a row of table requests with the columns that the desk reads
Order(status, client_name, car_number, open_date, close_date) ==
    [status |-> status, client_name |-> client_name, car_number |-> car_number,
     open_date |-> open_date, close_date |-> close_date]

\* the row of the orders table of the main window for the order with this id
TableRow(os, id) ==
    [id |-> id, status |-> os[id].status, client_name |-> os[id].client_name,
     open_date |-> os[id].open_date, close_date |-> os[id].close_date]

\* populate_orders_table(): the rows of the SELECT
populate_orders_table(u, os) ==
    IF u.role = "Client"
        THEN { TableRow(os, id) : id \in { i \in 1..Len(os) : os[i].client_name = u.full_name } }
        ELSE { TableRow(os, id) : id \in 1..Len(os) }

\* the search form: texts of status_input and client_input, and the date of
\* close_date_from_widget when it is switched on
NoCriteria == [status |-> "", client |-> <<>>, close_date_from |-> None]

\* the WHERE clause of search_orders written without the parentheses around
\* the two tests of close_date
search_orders_where_openOr(u, crit, row) ==
    \/ /\ (u.role = "Client" => row.client_name = u.full_name)
       /\ (crit.status # "" => row.status = crit.status)
       /\ (crit.client # <<>> => Like(crit.client, row.client_name))
       /\ (crit.close_date_from # None => row.close_date = ne_ukazano)
    \/ /\ crit.close_date_from # None
       /\ row.close_date = toString(crit.close_date_from[1])

\* the WHERE clause that search_orders builds; no status text occurs in
\* another, so "status LIKE %text%" with a full status text is equality
search_orders_where(u, crit, row) ==
    /\ (u.role = "Client" => row.client_name = u.full_name)
    /\ (crit.status # "" => row.status = crit.status)
    /\ (crit.client # <<>> => Like(crit.client, row.client_name))
    /\ (crit.close_date_from # None =>
           \/ row.close_date = ne_ukazano
           \/ row.close_date = toString(crit.close_date_from[1]))

search_orders(u, os, crit) ==
    { TableRow(os, id) : id \in { i \in 1..Len(os) : search_orders_where(u, crit, os[i]) } }

\* the open_date column of the orders, as the bag that requests stands for
OpenDateColumn(os) ==
    IF os = <<>> THEN EmptyBag
    ELSE LET col == { os[i].open_date : i \in 1..Len(os) }
         IN  [v \in col |-> Cardinality({ i \in 1..Len(os) : os[i].open_date = v })]

\* rows that hold the given open dates, in the order of the SELECT
StoredRows(table) ==
    [i \in 1..BagCardinality(table) |->
        Order(novyj, n_Ann, "A001AA", SelectOpenDates(table)[i], ne_ukazano)]

(***************************************************************************)
(* State.                                                                  *)
(*   requests         the open_date column of table requests, as a bag     *)
(*   pc               "idle": forecast window open, nothing computed yet;  *)
(*                    "recursing": inside recursive_forecast;              *)
(*                    "shown": calculate_forecast has returned;            *)
(*                    "crashed": calculate_forecast raised                 *)
(*   selected_year .. deviation   the locals of calculate_forecast         *)
(*   results_text     the content of the results field                     *)
(*   stack            the active calls of recursive_forecast, outermost    *)
(*                    first: target_date, prev_months, values built so far *)
(*   rf_calls         bag of the target months recursive_forecast has been *)
(*                    invoked with since the last click                    *)
(*   previous_call    "none" before and during the first click; afterwards *)
(*                    "same" when the click before the latest one had the  *)
(*                    same year, month and window size, "other" when not   *)
(*   clients, employees   the two account tables, as sets of rows          *)
(*   orders           table requests: the row of id i is orders[i]         *)
(*   user             <<>> at the login window, <<u>> in the main window   *)
(*                    of user u                                            *)
(*   permissions      MainWindow.permissions                               *)
(*   forecast_button  whether the main window has the forecast button      *)
(*   is_filtered      MainWindow.is_filtered                               *)
(*   orders_table     the rows that the orders table of the main window    *)
(*                    shows                                                *)
(*   message          the message box or error shown by the last handler;  *)
(*                    "order_saved" when EditOrderWindow stored the row    *)
(*                    and closed, "none" when nothing was shown            *)
(***************************************************************************)
VARIABLES requests, pc, selected_year, selected_month, window_size, dates,
          monthly_counts, sorted_months, counts, moving_averages,
          forecast, actual, deviation, results_text, stack, rf_calls,
          previous_call

VARIABLES clients, employees, orders, user, permissions, forecast_button,
          is_filtered, orders_table, message

desk_vars == <<clients, employees, orders, user, permissions, forecast_button,
               is_filtered, orders_table, message>>

vars == <<requests, pc, selected_year, selected_month, window_size, dates,
          monthly_counts, sorted_months, counts, moving_averages,
          forecast, actual, deviation, results_text, stack, rf_calls,
          previous_call, desk_vars>>

MonthIndex(key) == key[1] * 12 + key[2] - 1

KeyOf(i) == <<i \div 12, (i % 12) + 1>>

EarliestTarget == <<2023, 11>>

\* the values of year_spin / month_combo explored
TargetMonths ==
    { t \in (MinYearSpin..MaxYearSpin) \X (1..12) :
        MonthIndex(t) \in MonthIndex(EarliestTarget)
                            ..(MonthIndex(EarliestTarget) + TargetSpan - 1) }

\* the values of window_size_spin explored
WindowSizes == { w \in MinWindowSize..MaxWindowSize : w <= MaxWindow }

RECURSIVE TablesOfSize(_)
TablesOfSize(k) ==
    IF k = 0 THEN {EmptyBag}
    ELSE { t (+) SetToBag({v}) : t \in TablesOfSize(k - 1), v \in OpenDateValues }

Tables == UNION { TablesOfSize(k) : k \in 0..MaxDates } \cup LargerTables

NoPermissions == [p \in DOMAIN get_permissions("Client") |-> FALSE]

\* the forecast window opened from the main window of the administrator,
\* over a store that holds the rows of requests and no account
AdminSession ==
    /\ clients = {}
    /\ employees = {}
    /\ orders = StoredRows(requests)
    /\ user = <<AdminUser>>
    /\ permissions = get_permissions("Admin")
    /\ forecast_button = TRUE
    /\ is_filtered = FALSE
    /\ orders_table = populate_orders_table(AdminUser, orders)
    /\ message = "none"

Init ==
    /\ requests \in Tables
    /\ AdminSession
    /\ pc = "idle"
    /\ selected_year = 0
    /\ selected_month = 0
    /\ window_size = 0
    /\ dates = <<>>
    /\ monthly_counts = <<>>
    /\ sorted_months = <<>>
    /\ counts = <<>>
    /\ moving_averages = <<>>
    /\ forecast = None
    /\ actual = None
    /\ deviation = None
    /\ results_text = NoText
    /\ stack = <<>>
    /\ rf_calls = EmptyBag
    /\ previous_call = "none"

\* the aggregation continuing from the counts of the previous click
initial_counts_kept == monthly_counts

\* "monthly_counts = {}"
initial_counts == <<>>

Frame(target, w) ==
    [target_date |-> target,
     prev_months |-> prev_months_of(target[1], target[2], w),
     values |-> <<>>]

(***************************************************************************)
(* Click on "Рассчитать прогноз": calculate_forecast up to its return or   *)
(* up to its call of recursive_forecast.  Each local is bound once, to the *)
(* one value the code assigns it.                                          *)
(***************************************************************************)
calculate_forecast(y, m, w) ==
    /\ pc \in {"idle", "shown"}
    /\ \E ds \in {SelectOpenDates(requests)} :
       \E agg \in {AggregateLoop(ds, initial_counts)} :
       \E mc \in {agg.monthly_counts} :
       \E sm \in {sorted(DOMAIN mc)} :
       \E cs \in {counts_of(mc, sm)} :
       \E target \in {<<y, m>>} :
       \E path \in {handler_path(ds, agg.raised, mc, cs, target, w)} :
          /\ previous_call' =
                 IF pc = "idle" THEN "none"
                 ELSE IF <<y, m, w>> = <<selected_year, selected_month, window_size>>
                          THEN "same"
                          ELSE "other"
          /\ selected_year' = y
          /\ selected_month' = m
          /\ window_size' = w
          /\ dates' = ds
          /\ UNCHANGED <<requests, desk_vars>>
          /\ IF path = "no_data" THEN
                 /\ results_text' = NoData
                 /\ pc' = "shown"
                 /\ monthly_counts' = <<>> /\ sorted_months' = <<>> /\ counts' = <<>>
                 /\ moving_averages' = <<>> /\ stack' = <<>> /\ rf_calls' = EmptyBag
                 /\ forecast' = None /\ actual' = None /\ deviation' = None
             ELSE IF path = "type_error" THEN
                 /\ pc' = "crashed"
                 /\ monthly_counts' = mc
                 /\ sorted_months' = <<>> /\ counts' = <<>>
                 /\ moving_averages' = <<>> /\ stack' = <<>> /\ rf_calls' = EmptyBag
                 /\ forecast' = None /\ actual' = None /\ deviation' = None
                 /\ UNCHANGED results_text
             ELSE IF path = "insufficient" THEN
                 /\ results_text' = Insufficient(w, Len(cs))
                 /\ pc' = "shown"
                 /\ monthly_counts' = mc /\ sorted_months' = sm /\ counts' = cs
                 /\ moving_averages' = <<>> /\ stack' = <<>> /\ rf_calls' = EmptyBag
                 /\ forecast' = None /\ actual' = None /\ deviation' = None
             ELSE IF path = "observed" THEN
                 \E mavg \in {moving_averages_of(cs, w)} :
                 \E f \in {direct_forecast(sm, cs, mavg, target, w)} :
                     /\ monthly_counts' = mc /\ sorted_months' = sm /\ counts' = cs
                     /\ moving_averages' = mavg /\ stack' = <<>> /\ rf_calls' = EmptyBag
                     /\ forecast' = <<f>>
                     /\ actual' = <<mc[target]>>
                     /\ deviation' = <<deviation_of(f, mc[target])>>
                     /\ results_text' = Report(sm, cs, target, f, <<mc[target]>>,
                                               <<deviation_of(f, mc[target])>>)
                     /\ pc' = "shown"
             ELSE
                 /\ monthly_counts' = mc /\ sorted_months' = sm /\ counts' = cs
                 /\ moving_averages' = moving_averages_of(cs, w)
                 /\ stack' = <<Frame(target, w)>>
                 /\ rf_calls' = SetToBag({target})
                 /\ forecast' = None /\ actual' = None /\ deviation' = None
                 /\ pc' = "recursing"
                 /\ UNCHANGED results_text

(***************************************************************************)
(* recursive_forecast, one step of the innermost active call.              *)
(***************************************************************************)
Top == stack[Len(stack)]

NextMonth == Top.prev_months[Len(Top.values) + 1]

SetTop(frame) == [stack EXCEPT ![Len(stack)] = frame]

handler_locals == <<selected_year, selected_month, window_size, dates,
                    monthly_counts, sorted_months, counts, moving_averages>>

\* rf_resolve appending -1 for a month before the first
rf_resolve_minusOne ==
    /\ pc = "recursing"
    /\ Len(Top.values) < window_size
    /\ \/ /\ NextMonth \in DOMAIN monthly_counts
          /\ stack' = SetTop([Top EXCEPT
                 !.values = Append(@, 100 * monthly_counts[NextMonth])])
       \/ /\ NextMonth \notin DOMAIN monthly_counts
          /\ before_first(NextMonth, sorted_months)
          /\ stack' = SetTop([Top EXCEPT !.values = Append(@, 0 - 100)])
    /\ UNCHANGED <<requests, pc, handler_locals, forecast, actual, deviation,
                   results_text, rf_calls, previous_call, desk_vars>>

\* loop "for month in prev_months": an observed month, or one before the first
rf_resolve ==
    /\ pc = "recursing"
    /\ Len(Top.values) < window_size
    /\ \/ /\ NextMonth \in DOMAIN monthly_counts
          /\ stack' = SetTop([Top EXCEPT
                 !.values = Append(@, 100 * monthly_counts[NextMonth])])
       \/ /\ NextMonth \notin DOMAIN monthly_counts
          /\ before_first(NextMonth, sorted_months)
          /\ stack' = SetTop([Top EXCEPT !.values = Append(@, 0)])
    /\ UNCHANGED <<requests, pc, handler_locals, forecast, actual, deviation,
                   results_text, rf_calls, previous_call, desk_vars>>

\* loop "for month in prev_months": the recursive call for any other month
rf_call ==
    /\ pc = "recursing"
    /\ Len(Top.values) < window_size
    /\ NextMonth \notin DOMAIN monthly_counts
    /\ ~before_first(NextMonth, sorted_months)
    /\ stack' = Append(stack, Frame(NextMonth, window_size))
    /\ rf_calls' = rf_calls (+) SetToBag({NextMonth})
    /\ UNCHANGED <<requests, pc, handler_locals, forecast, actual, deviation,
                   results_text, previous_call, desk_vars>>

\* rf_return that also stores the value it returns under the month of the call
rf_return_writeBack ==
    /\ pc = "recursing"
    /\ Len(Top.values) = window_size
    /\ \E r \in {round_mean(Top.values)} :
           /\ monthly_counts' =
                  [k \in (DOMAIN monthly_counts) \cup {Top.target_date} |->
                      IF k = Top.target_date THEN r \div 100 ELSE monthly_counts[k]]
           /\ IF Len(stack) > 1
                  THEN /\ stack' = [i \in 1..(Len(stack) - 1) |->
                                       IF i = Len(stack) - 1
                                           THEN [stack[i] EXCEPT !.values = Append(@, r)]
                                           ELSE stack[i]]
                       /\ UNCHANGED <<pc, forecast, actual, deviation, results_text>>
                  ELSE /\ stack' = <<>>
                       /\ forecast' = <<r>>
                       /\ actual' = None
                       /\ deviation' = None
                       /\ results_text' = Report(sorted_months, counts,
                                                 <<selected_year, selected_month>>,
                                                 r, None, None)
                       /\ pc' = "shown"
    /\ UNCHANGED <<requests, selected_year, selected_month, window_size, dates,
                   sorted_months, counts, moving_averages, rf_calls, previous_call,
                   desk_vars>>

\* "return round(mean(values), 2)", to the calling frame or to
\* calculate_forecast, which then writes the report
rf_return ==
    /\ pc = "recursing"
    /\ Len(Top.values) = window_size
    /\ \E r \in {round_mean(Top.values)} :
           IF Len(stack) > 1
               THEN /\ stack' = [i \in 1..(Len(stack) - 1) |->
                                    IF i = Len(stack) - 1
                                        THEN [stack[i] EXCEPT !.values = Append(@, r)]
                                        ELSE stack[i]]
                    /\ UNCHANGED <<pc, forecast, actual, deviation, results_text>>
               ELSE /\ stack' = <<>>
                    /\ forecast' = <<r>>
                    /\ actual' = None
                    /\ deviation' = None
                    /\ results_text' = Report(sorted_months, counts,
                                              <<selected_year, selected_month>>,
                                              r, None, None)
                    /\ pc' = "shown"
    /\ UNCHANGED <<requests, handler_locals, rf_calls, previous_call, desk_vars>>

Next ==
    \/ \E t \in TargetMonths, w \in WindowSizes : calculate_forecast(t[1], t[2], w)
    \/ rf_resolve
    \/ rf_call
    \/ rf_return

Spec == Init /\ [][Next]_vars

\* the event loop runs a started handler to its end: a step of the recursion
\* that can be taken is taken
rf_step == rf_resolve \/ rf_call \/ rf_return

FairSpec == Spec /\ WF_vars(rf_step)

(***************************************************************************)
(* Lines 163-182 of calculate_forecast on their own: the observed branch   *)
(* from the point where forecast has been chosen, for any forecast (a      *)
(* multiple of 0.5 up to MaxHalves / 2) and any actual count from 0 to     *)
(* MaxActual, the count 0 included, which the aggregation never produces.  *)
(***************************************************************************)
DeviationInit ==
    /\ requests = EmptyBag
    /\ AdminSession
    /\ pc = "line_163"
    /\ selected_year = 2024
    /\ selected_month = 1
    /\ window_size = MinWindowSize
    /\ dates = <<>>
    /\ \E a \in 0..MaxActual :
          /\ monthly_counts = [k \in {<<2024, 1>>} |-> a]
          /\ counts = <<a>>
    /\ sorted_months = <<<<2024, 1>>>>
    /\ moving_averages = <<>>
    /\ forecast \in { <<50 * h>> : h \in 0..MaxHalves }
    /\ actual = None
    /\ deviation = None
    /\ results_text = NoText
    /\ stack = <<>>
    /\ rf_calls = EmptyBag
    /\ previous_call = "none"

actual_and_deviation ==
    /\ pc = "line_163"
    /\ \E a \in {monthly_counts[<<selected_year, selected_month>>]} :
       \E d \in {deviation_of(forecast[1], a)} :
          /\ actual' = <<a>>
          /\ deviation' = <<d>>
          /\ results_text' = Report(sorted_months, counts,
                                    <<selected_year, selected_month>>,
                                    forecast[1], <<a>>, <<d>>)
    /\ pc' = "shown"
    /\ UNCHANGED <<requests, handler_locals, forecast, stack, rf_calls,
                   previous_call, desk_vars>>

DeviationSpec == DeviationInit /\ [][actual_and_deviation]_vars

(***************************************************************************)
(* Lines 139-169 of calculate_forecast on their own: the handler from the  *)
(* end of the aggregation to the choice of the forecast, for every window  *)
(* size that window_size_spin offers (2..12).  The aggregated counts are   *)
(* drawn from the series that have at least window_size months among the   *)
(* window_size + WideGaps months that start at 11/2023, each month with a  *)
(* count between 1 and WideCounts; the target runs from the month before   *)
(* the first of these months to WideAhead months after the last.           *)
(***************************************************************************)
WideMonths(w) ==
    { KeyOf(i) : i \in MonthIndex(EarliestTarget)
                          ..(MonthIndex(EarliestTarget) + w + WideGaps - 1) }

WideTargets(w) ==
    { KeyOf(i) : i \in (MonthIndex(EarliestTarget) - 1)
                          ..(MonthIndex(EarliestTarget) + w + WideGaps - 1 + WideAhead) }

WideInit ==
    /\ requests = EmptyBag
    /\ AdminSession
    /\ pc = "line_139"
    /\ dates = <<>>
    /\ \E w \in MinWindowSize..MaxWindowSize :
       \E S \in SUBSET WideMonths(w) :
       \E c \in 1..WideCounts :
       \E t \in WideTargets(w) :
          /\ Cardinality(S) >= w
          /\ window_size = w
          /\ selected_year = t[1]
          /\ selected_month = t[2]
          /\ monthly_counts = [k \in S |-> 1 + (MonthIndex(k) % c)]
    /\ sorted_months = <<>>
    /\ counts = <<>>
    /\ moving_averages = <<>>
    /\ forecast = None
    /\ actual = None
    /\ deviation = None
    /\ results_text = NoText
    /\ stack = <<>>
    /\ rf_calls = EmptyBag
    /\ previous_call = "none"

forecast_from_counts ==
    /\ pc = "line_139"
    /\ \E sm \in {sorted(DOMAIN monthly_counts)} :
       \E cs \in {counts_of(monthly_counts, sm)} :
       \E target \in {<<selected_year, selected_month>>} :
          /\ sorted_months' = sm
          /\ counts' = cs
          /\ IF Len(cs) < window_size THEN
                 /\ results_text' = Insufficient(window_size, Len(cs))
                 /\ moving_averages' = <<>>
                 /\ forecast' = None /\ actual' = None /\ deviation' = None
             ELSE IF target \in DOMAIN monthly_counts THEN
                 \E mavg \in {moving_averages_of(cs, window_size)} :
                 \E f \in {direct_forecast(sm, cs, mavg, target, window_size)} :
                     /\ moving_averages' = mavg
                     /\ forecast' = <<f>>
                     /\ actual' = <<monthly_counts[target]>>
                     /\ deviation' = <<deviation_of(f, monthly_counts[target])>>
                     /\ results_text' = Report(sm, cs, target, f,
                                               <<monthly_counts[target]>>,
                                               <<deviation_of(f, monthly_counts[target])>>)
             ELSE
                 \E f \in {recursive_forecast(sm, monthly_counts, target, window_size)} :
                     /\ moving_averages' = moving_averages_of(cs, window_size)
                     /\ forecast' = <<f>>
                     /\ actual' = None
                     /\ deviation' = None
                     /\ results_text' = Report(sm, cs, target, f, None, None)
    /\ pc' = "shown"
    /\ UNCHANGED <<requests, selected_year, selected_month, window_size, dates,
                   monthly_counts, stack, rf_calls, previous_call, desk_vars>>

WideSpec == WideInit /\ [][forecast_from_counts]_vars

(***************************************************************************)
(* The desk: login window, main window and its dialogs.  A dialog is       *)
(* modal: the handler that opens it, the input typed into it and the       *)
(* handler of its save button are one step.  While the forecast window is  *)
(* open (pc # "closed") the main window takes no input.                    *)
(***************************************************************************)
forecast_window_vars == <<pc, handler_locals, forecast, actual, deviation,
                          results_text, stack, rf_calls, previous_call>>

\* a row of clients or employees with the columns that the desk reads
Account(username, full_name, password) ==
    [username |-> username, full_name |-> full_name, password |-> password]

\* existing_user looking at table clients only
existing_user_clientsOnly(username, cs, es) ==
    \E r \in cs : r.username = username

\* "SELECT username FROM clients WHERE username=? UNION SELECT username FROM
\* employees WHERE username=?" followed by fetchone()
existing_user(username, cs, es) ==
    \E r \in cs \cup es : r.username = username

\* INSERT into a table whose username column is the PRIMARY KEY
Insert(table, row) ==
    IF \E r \in table : r.username = row.username
        THEN [IntegrityError |-> TRUE, table |-> table]
        ELSE [IntegrityError |-> FALSE, table |-> table \cup {row}]

\* LoginWindow.check_credentials
check_credentials(username, password) ==
    IF \E r \in clients : r.username = username /\ r.password = password
        THEN <<User("Client", CHOOSE r \in clients :
                                  r.username = username /\ r.password = password)>>
    ELSE IF \E r \in employees : r.username = username /\ r.password = password
        THEN <<User("Employee", CHOOSE r \in employees :
                                    r.username = username /\ r.password = password)>>
    ELSE IF username = "zorkez" /\ password = "123qwe123"
        THEN <<AdminUser>>
    ELSE None

\* has_forecast_button that ignores the permission
has_forecast_button_always(perms) == TRUE

\* MainWindow.__init__: "if self.permissions.get("can_view_forecast_button", False)"
has_forecast_button(perms) == perms.can_view_forecast_button

\* LoginWindow.login: on success the main window is built for the user
login(username, password) ==
    /\ user = None
    /\ \E u \in {check_credentials(username, password)} :
          IF u # None
              THEN /\ user' = u
                   /\ permissions' = get_permissions(u[1].role)
                   /\ forecast_button' = has_forecast_button(get_permissions(u[1].role))
                   /\ is_filtered' = FALSE
                   /\ orders_table' = populate_orders_table(u[1], orders)
                   /\ message' = "none"
              ELSE /\ message' = "login_failed"
                   /\ UNCHANGED <<user, permissions, forecast_button, is_filtered,
                                  orders_table>>
    /\ UNCHANGED <<clients, employees, orders, requests, forecast_window_vars>>

\* MainWindow.logout: the main window is closed, a new login window opens
logout ==
    /\ user # None
    /\ pc = "closed"
    /\ user' = None
    /\ permissions' = NoPermissions
    /\ forecast_button' = FALSE
    /\ is_filtered' = FALSE
    /\ orders_table' = {}
    /\ message' = "none"
    /\ UNCHANGED <<clients, employees, orders, requests, forecast_window_vars>>

\* RegisterWindow.register with save_client_to_db
register(username, full_name, password, confirm_password) ==
    /\ user = None
    /\ IF password # confirm_password THEN
           /\ message' = "passwords_differ"
           /\ UNCHANGED clients
       ELSE IF username = "" \/ full_name = <<>> THEN
           /\ message' = "fields"
           /\ UNCHANGED clients
       ELSE IF existing_user(username, clients, employees) THEN
           /\ message' = "taken"
           /\ UNCHANGED clients
       ELSE IF username = "zorkez" THEN
           /\ message' = "reserved"
           /\ UNCHANGED clients
       ELSE
           /\ message' = "success"
           /\ clients' = Insert(clients, Account(username, full_name, password)).table
    /\ UNCHANGED <<employees, orders, requests, user, permissions, forecast_button,
                   is_filtered, orders_table, forecast_window_vars>>

\* AddClientWindow.add_window, from the clients tab
add_client(username, full_name, password) ==
    /\ user # None
    /\ pc = "closed"
    /\ permissions.clients
    /\ IF username = "" \/ full_name = <<>> THEN
           /\ message' = "fields"
           /\ UNCHANGED clients
       ELSE IF existing_user(username, clients, employees) THEN
           /\ message' = "taken"
           /\ UNCHANGED clients
       ELSE IF username = "zorkez" THEN
           /\ message' = "reserved"
           /\ UNCHANGED clients
       ELSE
           \E ins \in {Insert(clients, Account(username, full_name, password))} :
               /\ clients' = ins.table
               /\ message' = IF ins.IntegrityError THEN "integrity" ELSE "none"
    /\ UNCHANGED <<employees, orders, requests, user, permissions, forecast_button,
                   is_filtered, orders_table, forecast_window_vars>>

\* AddEmployeeWindow.add_window, from the employees tab
add_employee(username, full_name, password) ==
    /\ user # None
    /\ pc = "closed"
    /\ permissions.employees
    /\ IF username = "" \/ full_name = <<>> THEN
           /\ message' = "fields"
           /\ UNCHANGED employees
       ELSE IF existing_user(username, clients, employees) THEN
           /\ message' = "taken"
           /\ UNCHANGED employees
       ELSE IF username = "zorkez" THEN
           /\ message' = "reserved"
           /\ UNCHANGED employees
       ELSE
           \E ins \in {Insert(employees, Account(username, full_name, password))} :
               /\ employees' = ins.table
               /\ message' = IF ins.IntegrityError THEN "integrity" ELSE "none"
    /\ UNCHANGED <<clients, orders, requests, user, permissions, forecast_button,
                   is_filtered, orders_table, forecast_window_vars>>

\* "UPDATE ... SET full_name=?, ... [password=?] WHERE username=?"
Update(table, username, full_name, password) ==
    { IF r.username = username
          THEN Account(r.username, full_name,
                       IF password # "" THEN password ELSE r.password)
          ELSE r : r \in table }

\* MainWindow.edit_client with EditClientWindow.edit_window
edit_client(username, full_name, password) ==
    /\ user # None
    /\ pc = "closed"
    /\ permissions.clients
    /\ \E r \in clients : r.username = username
    /\ IF full_name = <<>> THEN
           /\ message' = "fields"
           /\ UNCHANGED clients
       ELSE
           /\ clients' = Update(clients, username, full_name, password)
           /\ message' = "none"
    /\ UNCHANGED <<employees, orders, requests, user, permissions, forecast_button,
                   is_filtered, orders_table, forecast_window_vars>>

\* MainWindow.edit_employee with EditEmployeeWindow.edit_window
edit_employee(username, full_name, password) ==
    /\ user # None
    /\ pc = "closed"
    /\ permissions.employees
    /\ \E r \in employees : r.username = username
    /\ IF full_name = <<>> THEN
           /\ message' = "fields"
           /\ UNCHANGED employees
       ELSE
           /\ employees' = Update(employees, username, full_name, password)
           /\ message' = "none"
    /\ UNCHANGED <<clients, orders, requests, user, permissions, forecast_button,
                   is_filtered, orders_table, forecast_window_vars>>

\* MainWindow.delete_client
delete_client(username) ==
    /\ user # None
    /\ pc = "closed"
    /\ permissions.clients
    /\ \E r \in clients : r.username = username
    /\ clients' = { r \in clients : r.username # username }
    /\ message' = "none"
    /\ UNCHANGED <<employees, orders, requests, user, permissions, forecast_button,
                   is_filtered, orders_table, forecast_window_vars>>

\* MainWindow.delete_employee
delete_employee(username) ==
    /\ user # None
    /\ pc = "closed"
    /\ permissions.employees
    /\ \E r \in employees : r.username = username
    /\ employees' = { r \in employees : r.username # username }
    /\ message' = "none"
    /\ UNCHANGED <<clients, orders, requests, user, permissions, forecast_button,
                   is_filtered, orders_table, forecast_window_vars>>

\* the id that AUTOINCREMENT gives to the next row; no row is ever deleted,
\* so it is one more than the largest id stored
NextId(os) == IF DOMAIN os = {} THEN 1
              ELSE 1 + CHOOSE i \in DOMAIN os : \A j \in DOMAIN os : j <= i

\* "INSERT INTO requests (...) VALUES (...)"
InsertOrder(os, row) == [i \in (DOMAIN os) \cup {NextId(os)} |->
                            IF i = NextId(os) THEN row ELSE os[i]]

\* MainWindow.show_add_order_window with AddOrderWindow.add_window: for a
\* Client the client name is fixed to the user's full name and the close
\* date is not asked
add_order(client_name_input, car_number, open_date_edit, close_date_edit) ==
    /\ user # None
    /\ pc = "closed"
    /\ Cardinality(DOMAIN orders) < MaxOrders
    /\ user[1].role = "Client" => client_name_input = user[1].full_name
    /\ \E close_date \in {IF user[1].role = "Client" THEN ne_ukazano
                          ELSE toString(close_date_edit)} :
          IF car_number = "" \/ client_name_input = <<>> THEN
              /\ message' = "fields"
              /\ UNCHANGED <<orders, requests, orders_table>>
          ELSE
              \E os \in {InsertOrder(orders, Order(novyj, client_name_input, car_number,
                                                   toString(open_date_edit), close_date))} :
                  /\ orders' = os
                  /\ requests' = OpenDateColumn(os)
                  /\ orders_table' = populate_orders_table(user[1], os)
                  /\ message' = "none"
    /\ UNCHANGED <<clients, employees, user, permissions, forecast_button, is_filtered,
                   forecast_window_vars>>

\* MainWindow.edit_order with EditOrderWindow: the edit button of a row of
\* the orders table; a disabled widget keeps the value it was given
edit_order(order_id, status_combo, client_name_input, car_number, open_date_edit, close_date_edit) ==
    /\ user # None
    /\ pc = "closed"
    /\ \E row \in orders_table : row.id = order_id
    /\ \E order \in {orders[order_id]} :
          IF user[1].role = "Client" /\ order.status # novyj THEN
              /\ message' = "restricted_edit"
              /\ UNCHANGED <<orders, requests, orders_table>>
          ELSE
              /\ ~permissions.can_edit_status => status_combo = order.status
              /\ ~permissions.can_edit_client_name => client_name_input = order.client_name
              /\ \E close_date \in {IF user[1].role = "Client" THEN ne_ukazano
                                    ELSE toString(close_date_edit)} :
                    IF car_number = "" \/ client_name_input = <<>> THEN
                        /\ message' = "fields"
                        /\ UNCHANGED <<orders, requests, orders_table>>
                    ELSE
                        \E os \in {[orders EXCEPT ![order_id] =
                                       Order(status_combo, client_name_input, car_number,
                                             toString(open_date_edit), close_date)]} :
                            /\ orders' = os
                            /\ requests' = OpenDateColumn(os)
                            /\ orders_table' = populate_orders_table(user[1], os)
                            /\ message' = "order_saved"
    /\ UNCHANGED <<clients, employees, user, permissions, forecast_button, is_filtered,
                   forecast_window_vars>>

\* the date that open_date_edit of EditOrderWindow holds when the window opens
InitialOpenDate(order) == setDate(fromString(order.open_date))

\* delete_order that deletes the row
delete_order_deletes(order_id) ==
    /\ user # None
    /\ pc = "closed"
    /\ \E row \in orders_table : row.id = order_id
    /\ IF user[1].role = "Client" /\ orders[order_id].status = v_rabote THEN
           /\ message' = "restricted_delete"
           /\ UNCHANGED <<orders, requests, orders_table>>
       ELSE
           \E os \in {[i \in (DOMAIN orders) \ {order_id} |-> orders[i]]} :
               /\ orders' = os
               /\ requests' = OpenDateColumn(os)
               /\ orders_table' = populate_orders_table(user[1], os)
               /\ message' = "none"
    /\ UNCHANGED <<clients, employees, user, permissions, forecast_button, is_filtered,
                   forecast_window_vars>>

\* MainWindow.delete_order: the delete button of a row of the orders table
delete_order(order_id) ==
    /\ user # None
    /\ pc = "closed"
    /\ \E row \in orders_table : row.id = order_id
    /\ IF user[1].role = "Client" /\ orders[order_id].status = v_rabote THEN
           /\ message' = "restricted_delete"
           /\ UNCHANGED orders_table
       ELSE
           /\ orders_table' = populate_orders_table(user[1], orders)
           /\ message' = "none"
    /\ UNCHANGED <<clients, employees, orders, requests, user, permissions,
                   forecast_button, is_filtered, forecast_window_vars>>

\* MainWindow.toggle_search when no filter is set: the search window, then
\* SearchWindow.search_orders and MainWindow.on_search_completed
search(crit) ==
    /\ user # None
    /\ pc = "closed"
    /\ ~is_filtered
    /\ orders_table' = search_orders(user[1], orders, crit)
    /\ is_filtered' = TRUE
    /\ message' = "none"
    /\ UNCHANGED <<clients, employees, orders, requests, user, permissions,
                   forecast_button, forecast_window_vars>>

\* MainWindow.toggle_search when a filter is set: MainWindow.reset_filter
reset_filter ==
    /\ user # None
    /\ pc = "closed"
    /\ is_filtered
    /\ orders_table' = populate_orders_table(user[1], orders)
    /\ is_filtered' = FALSE
    /\ message' = "none"
    /\ UNCHANGED <<clients, employees, orders, requests, user, permissions,
                   forecast_button, forecast_window_vars>>

\* the locals of a forecast window in which nothing has been computed
FreshForecastWindow ==
    /\ selected_year' = 0
    /\ selected_month' = 0
    /\ window_size' = 0
    /\ dates' = <<>>
    /\ monthly_counts' = <<>>
    /\ sorted_months' = <<>>
    /\ counts' = <<>>
    /\ moving_averages' = <<>>
    /\ forecast' = None
    /\ actual' = None
    /\ deviation' = None
    /\ results_text' = NoText
    /\ stack' = <<>>
    /\ rf_calls' = EmptyBag
    /\ previous_call' = "none"

\* MainWindow.show_forecast_window: the handler of the forecast button
show_forecast_window ==
    /\ user # None
    /\ forecast_button
    /\ pc = "closed"
    /\ pc' = "idle"
    /\ FreshForecastWindow
    /\ UNCHANGED <<requests, desk_vars>>

\* the forecast window is closed
close_forecast_window ==
    /\ pc \in {"idle", "shown"}
    /\ pc' = "closed"
    /\ FreshForecastWindow
    /\ UNCHANGED <<requests, desk_vars>>

\* the accounts of the store in which the orders are explored
DeskClients == {Account("ann", n_Ann, "pw"), Account("anna", n_Anna, "pw")}

DeskEmployees == {Account("egor", n_Egor, "pw")}

\* the logins and passwords typed into the login window
DeskLogins == {<<"ann", "pw">>, <<"anna", "pw">>, <<"egor", "pw">>,
               <<"zorkez", "123qwe123">>, <<"zorkez", "pw">>}

\* the search forms filled in
Criteria ==
    [status : {"", novyj, v_rabote},
     client : {<<>>, n_Ann},
     close_date_from : {None, <<DefaultQDate>>, <<QDate(2024, 4, 20)>>}]

\* the targets asked of the forecast window, with the smallest window size:
\* the orders of the desk lie in one month, so that calculate_forecast returns
\* at its no-data or its insufficient-data test
DeskTargets == {<<2024, 2>>, <<2024, 5>>}

LoginWindowOpen ==
    /\ user = None
    /\ permissions = NoPermissions
    /\ forecast_button = FALSE
    /\ is_filtered = FALSE
    /\ orders_table = {}
    /\ message = "none"
    /\ pc = "closed"
    /\ selected_year = 0
    /\ selected_month = 0
    /\ window_size = 0
    /\ dates = <<>>
    /\ monthly_counts = <<>>
    /\ sorted_months = <<>>
    /\ counts = <<>>
    /\ moving_averages = <<>>
    /\ forecast = None
    /\ actual = None
    /\ deviation = None
    /\ results_text = NoText
    /\ stack = <<>>
    /\ rf_calls = EmptyBag
    /\ previous_call = "none"

\* the program started on a store with two clients, one employee and no order
DeskInit ==
    /\ clients = DeskClients
    /\ employees = DeskEmployees
    /\ orders = <<>>
    /\ requests = EmptyBag
    /\ LoginWindowOpen

DeskNext ==
    \/ \E l \in DeskLogins : login(l[1], l[2])
    \/ logout
    \/ \E cn \in FullNames, car \in CarNumbers, od \in OpenDateEdits,
          cd \in CloseDateEdits : add_order(cn, car, od, cd)
    \/ \E id \in DOMAIN orders, st \in Statuses, cn \in FullNames, car \in CarNumbers :
       \E od \in OpenDateEdits \cup {InitialOpenDate(orders[id])},
          cd \in CloseDateEdits : edit_order(id, st, cn, car, od, cd)
    \/ \E id \in DOMAIN orders : delete_order(id)
    \/ \E crit \in Criteria : search(crit)
    \/ reset_filter
    \/ show_forecast_window
    \/ close_forecast_window
    \/ \E t \in DeskTargets : calculate_forecast(t[1], t[2], MinWindowSize)

DeskSpec == DeskInit /\ [][DeskNext]_vars

\* the program started on an empty store
AccountsInit ==
    /\ clients = {}
    /\ employees = {}
    /\ orders = <<>>
    /\ requests = EmptyBag
    /\ LoginWindowOpen

AccountsNext ==
    \/ \E u \in Usernames, p \in Passwords : login(u, p)
    \/ logout
    \/ \E u \in Usernames \cup {""}, n \in FullNames, p \in Passwords, c \in Passwords :
          register(u, n, p, c)
    \/ \E u \in Usernames \cup {""}, n \in FullNames, p \in Passwords : add_client(u, n, p)
    \/ \E u \in Usernames \cup {""}, n \in FullNames, p \in Passwords : add_employee(u, n, p)
    \/ \E u \in Usernames, n \in FullNames \cup {<<>>}, p \in Passwords \cup {""} :
          edit_client(u, n, p)
    \/ \E u \in Usernames, n \in FullNames \cup {<<>>}, p \in Passwords \cup {""} :
          edit_employee(u, n, p)
    \/ \E u \in Usernames : delete_client(u)
    \/ \E u \in Usernames : delete_employee(u)

AccountsSpec == AccountsInit /\ [][AccountsNext]_vars

(***************************************************************************)
(* Vocabulary of the properties, computed from the table itself.           *)
(***************************************************************************)
Stored == BagToSet(requests)

IsValidDate(v) == v # NULL /\ Parsed[v].ok

MonthOf(v) == <<Parsed[v].year, Parsed[v].month>>

\* the observed months and their order counts
ObservedMonths(table) == { MonthOf(v) : v \in { u \in BagToSet(table) : IsValidDate(u) } }

MonthCount(table, key) ==
    BagCardinality([v \in { u \in BagToSet(table) : IsValidDate(u) /\ MonthOf(u) = key }
                       |-> table[v]])

ObservedIdx == { MonthIndex(k) : k \in ObservedMonths(requests) }

EarliestIdx == CHOOSE i \in ObservedIdx : \A j \in ObservedIdx : i <= j

\* the observed months in calendar order, as month indices
RECURSIVE Ascending(_)
Ascending(S) ==
    IF S = {} THEN <<>>
    ELSE LET least == CHOOSE i \in S : \A j \in S : i <= j
         IN  <<least>> \o Ascending(S \ {least})

TargetKey == <<selected_year, selected_month>>

TargetIdx == MonthIndex(TargetKey)

\* 0-based position of the target among the observed months
TargetPos == Cardinality({ i \in ObservedIdx : i < TargetIdx })

Reported == pc = "shown" /\ results_text.kind = "Report"

\* r is a hundredth nearest to the mean of vals
IsMeanRounded2(r, vals) ==
    LET d == Len(vals) * r - Sum(vals)
    IN  2 * (IF d < 0 THEN 0 - d ELSE d) <= Len(vals)

\* the table without its NULLs and without the strings that are not dates
ValidOnly(table) ==
    [v \in { u \in BagToSet(table) : IsValidDate(u) } |-> table[v]]

\* the table without its NULLs
WithoutNull(table) == [v \in BagToSet(table) \ {NULL} |-> table[v]]

\* the aggregated series: its months as month indices, and the earliest one
SeriesIdx == { MonthIndex(k) : k \in DOMAIN monthly_counts }

FirstIdx == CHOOSE i \in SeriesIdx : \A j \in SeriesIdx : i <= j

NothingComputed ==
    /\ monthly_counts = <<>> /\ sorted_months = <<>> /\ counts = <<>>
    /\ moving_averages = <<>> /\ forecast = None /\ actual = None
    /\ deviation = None /\ stack = <<>> /\ rf_calls = EmptyBag

(***************************************************************************)
(* C1: when the query returns no open dates at all, calculate_forecast     *)
(* shows the no-data text and computes nothing else (no aggregation, no    *)
(* moving average, no forecast, no history), whatever the target month and *)
(* the window size are.                                                    *)
(***************************************************************************)
C1_EmptyStoreNoData ==
    (pc # "idle" /\ requests = EmptyBag) =>
        /\ pc = "shown"
        /\ results_text = NoData
        /\ dates = <<>>
        /\ NothingComputed

C1_Witness ==
    /\ requests = EmptyBag /\ pc = "shown"
    /\ TargetKey = <<2024, 2>> /\ window_size = MaxWindow

(***************************************************************************)
(* C2: for a history of n >= 1 distinct observed months and a window       *)
(* w > n, calculate_forecast shows the insufficient-data text with         *)
(* required = w and available = n, for an observed and for an unobserved   *)
(* target alike, and produces no forecast (no call of recursive_forecast). *)
(* The table holds strings only; the empty history is C1's case.           *)
(***************************************************************************)
C2_InsufficientData ==
    LET n == Cardinality(ObservedMonths(requests))
    IN  (pc # "idle" /\ NULL \notin Stored /\ n >= 1 /\ window_size > n) =>
            /\ pc = "shown"
            /\ results_text = Insufficient(window_size, n)
            /\ forecast = None /\ actual = None /\ deviation = None
            /\ moving_averages = <<>> /\ stack = <<>> /\ rf_calls = EmptyBag

C2_Witness ==
    /\ pc = "shown" /\ results_text = Insufficient(3, 2)
    /\ TargetKey \in ObservedMonths(requests)

(***************************************************************************)
(* C3: for an unobserved target the forecast is the rounded mean of        *)
(* exactly window_size values, one for each of the window_size calendar    *)
(* months before the target (December of the previous year before          *)
(* January): the count of an observed month, 0 for a month before the      *)
(* earliest observed one, and for any other month the value of this same   *)
(* rule applied to that month.  The innermost active call of               *)
(* recursive_forecast, which is the one that is being extended, works on   *)
(* these months and has built these values.                                *)
(***************************************************************************)
RECURSIVE Backfill(_, _)
RECURSIVE Contribution(_, _)
Backfill(i, w) == round_mean([j \in 1..w |-> Contribution(i - j, w)])

Contribution(i, w) ==
    IF i \in SeriesIdx THEN 100 * monthly_counts[KeyOf(i)]
    ELSE IF i < FirstIdx THEN 0
    ELSE Backfill(i, w)

FrameFollowsRule(f) ==
    /\ Len(f.prev_months) = window_size
    /\ Len(f.values) <= window_size
    /\ \A j \in 1..window_size :
          /\ f.prev_months[j][2] \in 1..12
          /\ MonthIndex(f.prev_months[j]) = MonthIndex(f.target_date) - j
    /\ \A j \in 1..Len(f.values) :
          f.values[j] = Contribution(MonthIndex(f.target_date) - j, window_size)

C3_UnobservedTargetBackfill ==
    /\ pc = "recursing" => FrameFollowsRule(Top)
    /\ (Reported /\ TargetKey \notin DOMAIN monthly_counts) =>
          /\ forecast = <<Backfill(TargetIdx, window_size)>>
          /\ results_text.forecast = Backfill(TargetIdx, window_size)
          /\ IsMeanRounded2(results_text.forecast,
                            [j \in 1..window_size |->
                                Contribution(TargetIdx - j, window_size)])

\* a target after the latest month: February, one of its predecessors, is a
\* gap and is backfilled from January, December of the year before and a
\* month before the earliest one
C3_Witness ==
    /\ Reported
    /\ DOMAIN monthly_counts = {<<2023, 12>>, <<2024, 1>>, <<2024, 3>>}
    /\ TargetKey = <<2024, 4>> /\ window_size = 3
    /\ results_text.forecast # 100

(***************************************************************************)
(* C4: for a target observed at 0-based position idx >= window_size among  *)
(* the observed months in calendar order, the forecast is the rounded mean *)
(* of the counts of the window_size observed months at positions           *)
(* idx - window_size .. idx - 1; the target's own count is not part of it. *)
(***************************************************************************)
CountAt(pos) == MonthCount(requests, KeyOf(Ascending(ObservedIdx)[pos + 1]))

C4_ObservedTargetFullWindow ==
    (Reported /\ TargetKey \in ObservedMonths(requests) /\ TargetPos >= window_size) =>
        /\ forecast # None
        /\ results_text.forecast = forecast[1]
        /\ IsMeanRounded2(forecast[1],
               [j \in 1..window_size |-> 100 * CountAt(TargetPos - window_size + j - 1)])
        /\ moving_averages[TargetPos - window_size + 1] = forecast[1]

\* the target's own count differs from the counts before it
C4_Witness ==
    /\ Reported /\ TargetKey \in ObservedMonths(requests)
    /\ TargetPos >= window_size
    /\ CountAt(TargetPos) > CountAt(TargetPos - 1)

(***************************************************************************)
(* C5: for a target observed at position idx with 0 < idx < window_size    *)
(* the forecast is the rounded mean of all the counts at positions         *)
(* 0 .. idx - 1; for idx = 0, the earliest observed month, it is 0.        *)
(***************************************************************************)
C5_ObservedTargetShortHistory ==
    (Reported /\ TargetKey \in ObservedMonths(requests) /\ TargetPos < window_size) =>
        /\ forecast # None
        /\ results_text.forecast = forecast[1]
        /\ IF TargetPos = 0
               THEN forecast[1] = 0
               ELSE IsMeanRounded2(forecast[1],
                        [j \in 1..TargetPos |-> 100 * CountAt(j - 1)])

C5_Witness ==
    /\ Reported /\ TargetKey \in ObservedMonths(requests)
    /\ window_size = 3 /\ TargetPos = 2
    /\ CountAt(0) # CountAt(1)

\* the earliest observed month as the target
C5_WitnessFirstMonth ==
    /\ Reported /\ TargetKey \in ObservedMonths(requests)
    /\ TargetPos = 0 /\ forecast = <<0>>

(***************************************************************************)
(* C6: recursive_forecast terminates for every non-empty series, target    *)
(* and window >= 2.  Every nested call works on a month strictly earlier   *)
(* than its caller's target, no call is ever made for a month before the   *)
(* earliest observed one (such a month contributes 0 at once), and every   *)
(* started recursion reaches the end of calculate_forecast.                *)
(***************************************************************************)
CallsDescend ==
    \A i \in 2..Len(stack) :
        /\ MonthIndex(stack[i].target_date) < MonthIndex(stack[i - 1].target_date)
        /\ MonthIndex(stack[i].target_date) >= FirstIdx

EarlyMonthsAreZero ==
    \A i \in 1..Len(stack) : \A j \in 1..Len(stack[i].values) :
        MonthIndex(stack[i].prev_months[j]) < FirstIdx => stack[i].values[j] = 0

C6_RecursionTerminates ==
    /\ [](pc = "recursing" => (CallsDescend /\ EarlyMonthsAreZero))
    /\ (pc = "recursing") ~> (pc = "shown")

\* a recursion with nested calls has returned
C6_Witness ==
    /\ pc = "shown" /\ results_text.kind = "Report"
    /\ BagCardinality(rf_calls) >= 4
    /\ window_size >= 2

(***************************************************************************)
(* C7: the recursive backfill is bounded within one click: either every    *)
(* unobserved month is resolved by at most one invocation of               *)
(* recursive_forecast (its value being reused afterwards), or the request  *)
(* is answered with an explicit "target too far" text; the number of       *)
(* invocations does not compound with the distance of the target.          *)
(***************************************************************************)
C7_BackfillBounded ==
    pc \in {"recursing", "shown"} =>
        \/ results_text.kind = "TargetTooFar"
        \/ \A month \in BagToSet(rf_calls) : CopiesIn(month, rf_calls) <= 1

(***************************************************************************)
(* C8: a stored string that is not a valid date is dropped without         *)
(* aborting: for a table of strings with at least one valid date, the      *)
(* handler does not raise, aggregates the valid dates only, and shows      *)
(* exactly what it shows for the same table without the invalid strings    *)
(* (history, forecast, actual, deviation, or the insufficient-data text).  *)
(***************************************************************************)
C8_InvalidStringsDropped ==
    (pc # "idle" /\ NULL \notin Stored /\ \E v \in Stored : IsValidDate(v)) =>
        /\ pc # "crashed"
        /\ DOMAIN monthly_counts = ObservedMonths(ValidOnly(requests))
        /\ pc = "shown" =>
              results_text = Outcome(ValidOnly(requests), selected_year,
                                     selected_month, window_size)

\* a forecast shown although the table holds the 30th of February, a month
\* that no valid date of the table lies in
C8_Witness ==
    /\ Reported
    /\ NULL \notin Stored
    /\ d_2024_02_30 \in Stored
    /\ <<2024, 2>> \notin DOMAIN monthly_counts
    /\ Cardinality(DOMAIN monthly_counts) >= 2

(***************************************************************************)
(* C9: a row whose open_date is NULL is dropped like any other corrupt     *)
(* record: the handler does not raise and shows what it shows for the      *)
(* remaining valid records.                                                *)
(***************************************************************************)
C9_NullRecordDropped ==
    (pc # "idle" /\ NULL \in Stored /\ \E v \in Stored : IsValidDate(v)) =>
        /\ pc # "crashed"
        /\ pc = "shown" =>
              results_text = Outcome(ValidOnly(requests), selected_year,
                                     selected_month, window_size)

(***************************************************************************)
(* C10: for a history of n >= window_size months and a target strictly     *)
(* before the earliest observed month, a forecast is shown, all the        *)
(* window_size months before the target contribute 0 without any nested    *)
(* call of recursive_forecast, and the forecast is 0.                      *)
(***************************************************************************)
C10_TargetBeforeHistory ==
    LET n == Cardinality(DOMAIN monthly_counts)
    IN  (pc \in {"recursing", "shown"}
            /\ n >= window_size /\ TargetIdx < FirstIdx) =>
            /\ rf_calls = SetToBag({TargetKey})
            /\ pc = "recursing" =>
                  /\ Len(stack) = 1
                  /\ \A j \in 1..Len(stack[1].values) : stack[1].values[j] = 0
            /\ pc = "shown" =>
                  /\ results_text.kind = "Report"
                  /\ forecast = <<0>>
                  /\ results_text.forecast = 0
                  /\ results_text.actual = None

C10_Witness ==
    /\ Reported
    /\ Cardinality(DOMAIN monthly_counts) = 3 /\ window_size = 3
    /\ TargetIdx < FirstIdx
    /\ forecast = <<0>>

(***************************************************************************)
(* C11: when the target month is observed with the count a # 0, the        *)
(* deviation is (forecast - a) / a * 100 for the forecast that is          *)
(* reported, and the report shows it with its sign to the nearest          *)
(* hundredth of a percent.  For 2, 4, 6, 8 requests in 01/2024 .. 04/2024, *)
(* window 3 and target 04/2024 the forecast is 4.0 and the deviation shown *)
(* is -50.00%.                                                             *)
(***************************************************************************)
\* t is the value num / den percent written with sign and two decimals
ShowsPercent(t, num, den) ==
    /\ t.sign = (IF num < 0 THEN "-" ELSE "+")
    /\ 2 * Abs(100 * Abs(num) - t.hundredths * den) <= den

C11_DeviationOfObservedTarget ==
    /\ (Reported /\ TargetKey \in DOMAIN monthly_counts) =>
          LET a == monthly_counts[TargetKey]
          IN  /\ a # 0
              /\ results_text.forecast = forecast[1]
              /\ deviation = << <<forecast[1] - 100 * a, a>> >>
              /\ results_text.deviation # None
              /\ results_text.deviation[1] # {}
              /\ \A t \in results_text.deviation[1] :
                    ShowsPercent(t, forecast[1] - 100 * a, a)
    /\ (Reported /\ requests = Counts2468 /\ TargetKey = <<2024, 4>>
           /\ window_size = 3) =>
          /\ counts = <<2, 4, 6, 8>>
          /\ forecast = <<400>>
          /\ results_text.deviation = <<{[sign |-> "-", hundredths |-> 5000]}>>

C11_Witness ==
    /\ Reported /\ requests = Counts2468
    /\ TargetKey = <<2024, 4>> /\ window_size = 3
    /\ results_text.actual = <<8>>

(***************************************************************************)
(* C12: when the actual count of the target month is 0, the statement      *)
(* that computes the deviation completes (no division is made) and the     *)
(* deviation is 0, shown as +0.00%, whatever the forecast is, a non-zero   *)
(* one included.  Stated for lines 163-182 on their own: a count taken     *)
(* from monthly_counts is never 0 (C14).                                   *)
(***************************************************************************)
C12_ZeroActualZeroDeviation ==
    /\ pc = "line_163" => ENABLED actual_and_deviation
    /\ (pc = "shown" /\ actual = <<0>>) =>
          /\ deviation # None
          /\ deviation[1][1] = 0 /\ deviation[1][2] # 0
          /\ results_text.kind = "Report"
          /\ results_text.actual = <<0>>
          /\ results_text.deviation = <<{[sign |-> "+", hundredths |-> 0]}>>

C12_Witness ==
    /\ pc = "shown" /\ actual = <<0>> /\ forecast = <<150>>
    /\ deviation # None /\ deviation[1][1] = 0

(***************************************************************************)
(* C13: what calculate_forecast shows is a function of the stored open     *)
(* dates, the target year, the target month and the window size alone:     *)
(* whenever a click has returned, after a first click, after a click       *)
(* repeated with the same inputs or after a click with other inputs, the   *)
(* result is the one computed from the table and the three inputs with     *)
(* nothing else, and the click raises exactly when that computation does.  *)
(***************************************************************************)
C13_PureFunctionOfInputs ==
    /\ pc = "shown" =>
          results_text = Outcome(requests, selected_year, selected_month, window_size)
    /\ pc = "crashed" =>
          Outcome(requests, selected_year, selected_month, window_size) = TypeError

\* a forecast by recursion shown by a click that followed a click with other
\* inputs
C13_Witness ==
    /\ Reported /\ previous_call = "other"
    /\ BagCardinality(rf_calls) >= 2
    /\ requests = Counts2468

\* a click repeated with the same inputs
C13_WitnessRepeated ==
    /\ Reported /\ previous_call = "same"
    /\ BagCardinality(rf_calls) >= 2

(***************************************************************************)
(* C14: once the aggregation loop has run to its end, the keys of          *)
(* monthly_counts are exactly the months in which a stored date lies, each *)
(* key counts the stored dates of its year and month and so is at least 1, *)
(* the counts add up to the number of rows that hold a valid date, and     *)
(* sorted_months and counts list these keys and counts in ascending order. *)
(***************************************************************************)
C14_AggregationCounts ==
    (pc \in {"shown", "recursing"} /\ requests # EmptyBag) =>
        /\ DOMAIN monthly_counts = ObservedMonths(requests)
        /\ \A key \in DOMAIN monthly_counts :
              /\ monthly_counts[key] >= 1
              /\ monthly_counts[key] = MonthCount(requests, key)
        /\ Len(sorted_months) = Cardinality(DOMAIN monthly_counts)
        /\ \A i \in 1..Len(sorted_months) : sorted_months[i] \in DOMAIN monthly_counts
        /\ \A i \in 1..(Len(sorted_months) - 1) :
              MonthIndex(sorted_months[i]) < MonthIndex(sorted_months[i + 1])
        /\ counts = [i \in 1..Len(sorted_months) |-> monthly_counts[sorted_months[i]]]
        /\ Sum(counts) = BagCardinality(ValidOnly(requests))

\* two dates in one month, one in another, and a string that is not a date
C14_Witness ==
    /\ pc = "shown"
    /\ requests = SetToBag({d_2023_12_05, d_2024_02_30}) (+) SetToBag({d_2024_1_5})
                     (+) SetToBag({d_2024_1_5})
    /\ monthly_counts[<<2024, 1>>] = 2
    /\ counts = <<1, 2>>

(***************************************************************************)
(* C15: when the table holds rows but none of the stored strings is a      *)
(* valid date, so that the observed history is empty, calculate_forecast   *)
(* shows the no-data text, and neither a forecast nor the                  *)
(* insufficient-data text.                                                 *)
(***************************************************************************)
C15_AllUnparseableNoData ==
    (pc # "idle" /\ requests # EmptyBag /\ NULL \notin Stored
        /\ \A v \in Stored : ~IsValidDate(v)) =>
        /\ pc = "shown"
        /\ results_text = NoData

(***************************************************************************)
(* C16: with fewer observed months than the window size, the               *)
(* insufficient-data text is shown when the target month is observed,      *)
(* whereas for an unobserved target the forecast is computed by            *)
(* recursive_forecast and reported.                                        *)
(***************************************************************************)
C16_InsufficientOnlyForObservedTarget ==
    LET n == Cardinality(ObservedMonths(requests))
    IN  (pc # "idle" /\ NULL \notin Stored /\ n >= 1 /\ n < window_size) =>
            IF TargetKey \in ObservedMonths(requests)
                THEN pc = "shown" /\ results_text = Insufficient(window_size, n)
                ELSE /\ pc \in {"recursing", "shown"}
                     /\ pc = "shown" => results_text.kind = "Report"

(***************************************************************************)
(* C17: in every report, the line of the actual count is present exactly   *)
(* when the target month is a month of the series, and then holds the      *)
(* count of that month; the deviation line is present exactly when the     *)
(* actual count is; for an unobserved target both are absent.              *)
(***************************************************************************)
C17_ActualAndDeviationPresence ==
    Reported =>
        /\ (results_text.actual # None) <=> (TargetKey \in ObservedMonths(requests))
        /\ (results_text.deviation # None) <=> (results_text.actual # None)
        /\ results_text.actual # None =>
              /\ results_text.actual = <<MonthCount(requests, TargetKey)>>
              /\ actual = results_text.actual
        /\ TargetKey \notin ObservedMonths(requests) =>
              /\ results_text.actual = None /\ results_text.deviation = None
              /\ actual = None

\* an observed target with two dates
C17_Witness ==
    /\ Reported /\ TargetKey = <<2024, 1>>
    /\ results_text.actual = <<2>> /\ results_text.deviation # None
    /\ requests # Counts2468 /\ requests # EqualCounts

\* an unobserved target inside the history
C17_WitnessUnobserved ==
    /\ Reported /\ TargetKey = <<2024, 2>>
    /\ results_text.actual = None /\ results_text.deviation = None
    /\ Cardinality(DOMAIN monthly_counts) = 3

(***************************************************************************)
(* C18: for 2, 4, 6, 8 requests in 01/2024 .. 04/2024, window 3 and target *)
(* 06/2024, recursive_forecast looks at 05/2024, 04/2024 and 03/2024; the  *)
(* unobserved 05/2024 is resolved by one nested call, over 04/2024,        *)
(* 03/2024 and 02/2024 with the counts 8, 6 and 4, to 6.0; 04/2024 and     *)
(* 03/2024 contribute 8 and 6; the forecast is round(mean(6.0, 8, 6), 2) = *)
(* 6.67, and the nested call for 05/2024 is the only one.                  *)
(***************************************************************************)
IsPrefix(a, b) == Len(a) <= Len(b) /\ \A i \in 1..Len(a) : a[i] = b[i]

C18_ExactExpansion ==
    (requests = Counts2468 /\ TargetKey = <<2024, 6>> /\ window_size = 3) =>
        /\ pc \in {"recursing", "shown"}
        /\ pc = "recursing" =>
              /\ Len(stack) \in 1..2
              /\ stack[1].target_date = <<2024, 6>>
              /\ stack[1].prev_months = <<<<2024, 5>>, <<2024, 4>>, <<2024, 3>>>>
              /\ IsPrefix(stack[1].values, <<600, 800, 600>>)
              /\ Len(stack) = 2 =>
                    /\ stack[1].values = <<>>
                    /\ stack[2].target_date = <<2024, 5>>
                    /\ stack[2].prev_months = <<<<2024, 4>>, <<2024, 3>>, <<2024, 2>>>>
                    /\ IsPrefix(stack[2].values, <<800, 600, 400>>)
              /\ IsPrefix(<<600>>, stack[1].values) =>
                    rf_calls = SetToBag({<<2024, 6>>, <<2024, 5>>})
        /\ pc = "shown" =>
              /\ forecast = <<667>>
              /\ results_text.kind = "Report"
              /\ results_text.forecast = 667
              /\ results_text.actual = None
              /\ rf_calls = SetToBag({<<2024, 6>>, <<2024, 5>>})

C18_Witness ==
    /\ requests = Counts2468 /\ TargetKey = <<2024, 6>> /\ window_size = 3
    /\ Reported /\ forecast = <<667>>
    /\ BagCardinality(rf_calls) = 2

(***************************************************************************)
(* C19: when all n months of the series have the same count k and the      *)
(* window size w is at most n, every one of the n - w + 1 moving averages  *)
(* is k exactly, and the forecast reported for an observed target that is  *)
(* not the first month of the series is k.                                 *)
(***************************************************************************)
C19_ConstantSeries ==
    (pc \in {"recursing", "shown"}
        /\ monthly_counts # <<>>
        /\ (\A i, j \in DOMAIN monthly_counts : monthly_counts[i] = monthly_counts[j])
        /\ window_size <= Cardinality(DOMAIN monthly_counts)) =>
        LET k == monthly_counts[CHOOSE key \in DOMAIN monthly_counts : TRUE]
        IN  /\ Len(moving_averages) = Cardinality(DOMAIN monthly_counts) - window_size + 1
            /\ \A j \in 1..Len(moving_averages) : moving_averages[j] = 100 * k
            /\ (Reported /\ TargetKey \in DOMAIN monthly_counts
                   /\ TargetKey # sorted_months[1]) =>
                  /\ forecast = <<100 * k>>
                  /\ results_text.forecast = 100 * k

\* four months with 2 requests each, the target being the fourth: the forecast
\* is the first of the two moving averages
C19_Witness ==
    /\ Reported /\ requests = EqualCounts
    /\ window_size = 3 /\ TargetKey = <<2024, 3>>
    /\ moving_averages = <<200, 200>>
    /\ forecast = <<200>>

(***************************************************************************)
(* C20: no value of the forecaster is negative: the moving averages, the   *)
(* values that the active calls of recursive_forecast have collected, and  *)
(* the forecast of an observed and of an unobserved target are all >= 0,   *)
(* so that the forecast written to the report, max(forecast, 0), is the    *)
(* forecast itself.                                                        *)
(***************************************************************************)
C20_NonNegativeValues ==
    /\ \A j \in 1..Len(moving_averages) : moving_averages[j] >= 0
    /\ \A i \in 1..Len(stack) : \A j \in 1..Len(stack[i].values) :
          stack[i].values[j] >= 0
    /\ forecast # None => forecast[1] >= 0
    /\ Reported =>
          /\ forecast # None
          /\ results_text.forecast = forecast[1]

\* a forecast by recursion with nested calls, one of them for the month after
\* the first month of the series, which looks at a month before the first
C20_Witness ==
    /\ Reported /\ results_text.actual = None
    /\ BagCardinality(rf_calls) >= 3
    /\ KeyOf(FirstIdx + 1) \in BagToSet(rf_calls)
    /\ forecast[1] > 0
    /\ results_text.forecast = forecast[1]

(***************************************************************************)
(* C21: the history of every report lists each month in which a stored     *)
(* date lies exactly once, with the number of stored dates of that month,  *)
(* in strictly increasing (year, month) order, whatever the order in which *)
(* the SELECT delivered the dates.                                         *)
(***************************************************************************)
HistoryKey(i) == <<results_text.history[i][1], results_text.history[i][2]>>

C21_HistoryChronological ==
    Reported =>
        /\ Len(results_text.history) = Cardinality(ObservedMonths(requests))
        /\ { HistoryKey(i) : i \in 1..Len(results_text.history) }
               = ObservedMonths(requests)
        /\ \A i \in 1..Len(results_text.history) :
              results_text.history[i][3] = MonthCount(requests, HistoryKey(i))
        /\ \A i \in 1..(Len(results_text.history) - 1) :
              TupleLess(HistoryKey(i), HistoryKey(i + 1))

\* a report over three months of two years whose dates were read in an order
\* that is not chronological: "2024-03-10" is delivered before "2024-1-5"
C21_Witness ==
    /\ Reported
    /\ Len(results_text.history) = 3
    /\ HistoryKey(1) = <<2023, 12>>
    /\ \E i \in 1..Len(dates) : \E j \in (i + 1)..Len(dates) :
          /\ IsValidDate(dates[i]) /\ IsValidDate(dates[j])
          /\ TupleLess(MonthOf(dates[j]), MonthOf(dates[i]))

(***************************************************************************)
(* C22: from the end of the aggregation on, the monthly series is frozen:  *)
(* no step of recursive_forecast, at any depth, changes monthly_counts,    *)
(* sorted_months or counts (the value computed for a gap month or a future *)
(* month is not stored under that month), and the history of a report is   *)
(* the aggregated series, key by key and count by count.                   *)
(***************************************************************************)
SeriesFrozen ==
    pc = "recursing" =>
        /\ monthly_counts' = monthly_counts
        /\ sorted_months' = sorted_months
        /\ counts' = counts

HistoryIsSeries ==
    Reported =>
        /\ { HistoryKey(i) : i \in 1..Len(results_text.history) } = DOMAIN monthly_counts
        /\ \A i \in 1..Len(results_text.history) :
              /\ HistoryKey(i) = sorted(DOMAIN monthly_counts)[i]
              /\ results_text.history[i][3] = monthly_counts[HistoryKey(i)]
        /\ \A k \in BagToSet(rf_calls) : k \notin DOMAIN monthly_counts

C22_SeriesFrozen == [][SeriesFrozen]_vars /\ [](HistoryIsSeries)

\* a report after nested calls, one of them for a gap month between two
\* observed months and one for a month after the last observed month
C22_Witness ==
    /\ Reported
    /\ BagCardinality(rf_calls) >= 3
    /\ \E k \in BagToSet(rf_calls) : \E a, b \in DOMAIN monthly_counts :
          TupleLess(a, k) /\ TupleLess(k, b)
    /\ \E k \in BagToSet(rf_calls) : \A a \in DOMAIN monthly_counts : TupleLess(a, k)
    /\ Len(results_text.history) = Cardinality(DOMAIN monthly_counts)

(***************************************************************************)
(* C23: with n months in counts and window size w <= n, moving_averages    *)
(* has n - w + 1 elements and its element j (0-based) is the mean of       *)
(* counts[j .. j+w-1] rounded to two decimals; with n < w the handler has  *)
(* returned with the no-data or the insufficient-data text before the      *)
(* series is built, and no forecast was taken from it.                     *)
(***************************************************************************)
WindowAt(j) == [i \in 1..window_size |-> 100 * counts[j + i - 1]]

C23_MovingAverageSeries ==
    pc \in {"shown", "recursing"} =>
        IF Len(counts) < window_size
            THEN /\ moving_averages = <<>>
                 /\ forecast = None
                 /\ pc = "shown"
                 /\ results_text.kind \in {"NoData", "Insufficient"}
            ELSE /\ Len(moving_averages) = Len(counts) - window_size + 1
                 /\ \A j \in 1..Len(moving_averages) :
                       IsMeanRounded2(moving_averages[j], WindowAt(j))

\* counts 2, 1, 1 with window 3: one moving average, 4 / 3 rounded to 1.33
C23_Witness ==
    /\ Reported
    /\ window_size = 3
    /\ counts = <<2, 1, 1>>
    /\ moving_averages = <<133>>

\* counts 2, 4, 6, 8 with window 2: three moving averages
C23_WitnessSeries ==
    /\ Reported
    /\ window_size = 2
    /\ counts = <<2, 4, 6, 8>>
    /\ moving_averages = <<300, 500, 700>>

(***************************************************************************)
(* C27: for an observed target at position idx >= window_size whose        *)
(* window_size preceding calendar months are all observed (in particular   *)
(* for every such target of a history without gaps), the forecast the      *)
(* handler takes from moving_averages is the value recursive_forecast      *)
(* returns for the same series, target and window size; the two can        *)
(* differ only when one of these months is missing or idx < window_size.   *)
(***************************************************************************)
NoGapBeforeTarget ==
    \A i \in 1..window_size : KeyOf(TargetIdx - i) \in DOMAIN monthly_counts

C27_DirectEqualsRecursive ==
    (Reported /\ actual # None /\ NoGapBeforeTarget
        /\ IndexOf(sorted_months, TargetKey) >= window_size) =>
        forecast[1] = recursive_forecast(sorted_months, monthly_counts,
                                         TargetKey, window_size)

\* counts 1, 1, 2, 1 in four consecutive months, target the fourth, window 3:
\* both rules give 4 / 3 rounded to 1.33
C27_Witness ==
    /\ Reported /\ actual # None /\ NoGapBeforeTarget
    /\ window_size = 3
    /\ IndexOf(sorted_months, TargetKey) = 3
    /\ counts = <<1, 1, 2, 1>>
    /\ forecast = <<133>>
    /\ recursive_forecast(sorted_months, monthly_counts, TargetKey, window_size) = 133

(***************************************************************************)
(* C28: with at least window_size observed months and a window size in     *)
(* 2..12, the forecast is 0 exactly when the target is the earliest        *)
(* observed month or a month before it; for every other target (observed   *)
(* at a later position, in a gap, or after the last observed month) the    *)
(* forecast, rounded to two decimals, is strictly positive.                *)
(***************************************************************************)
C28_ZeroOnlyUpToEarliest ==
    (Reported /\ Len(counts) >= window_size
        /\ window_size \in MinWindowSize..MaxWindowSize) =>
        /\ forecast # None
        /\ forecast[1] >= 0
        /\ (forecast[1] = 0) <=> (TargetIdx <= FirstIdx)
        /\ results_text.forecast = forecast[1]

\* window 12, the month after the first observed month missing, and that
\* month as the target: the mean of one count 1 and eleven zeros, 0.08
C28_Witness ==
    /\ Reported
    /\ window_size = MaxWindowSize
    /\ TargetIdx = FirstIdx + 1
    /\ TargetKey \notin DOMAIN monthly_counts
    /\ monthly_counts[KeyOf(FirstIdx)] = 1
    /\ forecast = <<8>>

(***************************************************************************)
(* C24: the forecast button exists exactly in the main window of an        *)
(* Employee or of the administrator, and the forecast window is open, so   *)
(* that calculate_forecast can run, only in such a session; a Client       *)
(* session has neither, also when it follows the session of an Employee,   *)
(* because every login builds the main window from the permissions of the  *)
(* user who logged in.                                                     *)
(***************************************************************************)
C24_ForecastOnlyForStaff ==
    /\ user = None => (~forecast_button /\ pc = "closed")
    /\ user # None =>
          /\ forecast_button <=> user[1].role \in {"Employee", "Admin"}
          /\ permissions = get_permissions(user[1].role)
          /\ user[1].role = "Client" => pc = "closed"

\* a Client session without the button, after a session of an Employee or the
\* administrator: only they store a close date that is a date
C24_Witness ==
    /\ user # None
    /\ user[1].role = "Client"
    /\ ~forecast_button
    /\ pc = "closed"
    /\ \E id \in DOMAIN orders : orders[id].close_date # ne_ukazano

\* a forecast computed in the session of an Employee that follows the session
\* of a Client, who stored an order
C24_WitnessStaff ==
    /\ user # None
    /\ user[1].role = "Employee"
    /\ forecast_button
    /\ pc = "shown"
    /\ \E id \in DOMAIN orders : orders[id].close_date = ne_ukazano

(***************************************************************************)
(* C25: in a Client session no step changes an order whose stored status   *)
(* is not 'novyj'; an edit attempt on such an order shows the restriction  *)
(* and changes no order at all; and an order with status 'novyj' that the  *)
(* Client's edit changes has status 'novyj' and close date 'ne ukazano'    *)
(* afterwards.                                                             *)
(***************************************************************************)
ClientSession == user # None /\ user[1].role = "Client"

ClientEditRestricted ==
    ClientSession =>
        /\ DOMAIN orders \subseteq DOMAIN orders'
        /\ \A id \in DOMAIN orders :
              /\ orders[id].status # novyj => orders'[id] = orders[id]
              /\ (orders[id].status = novyj /\ orders'[id] # orders[id]) =>
                    /\ orders'[id].status = novyj
                    /\ orders'[id].close_date = ne_ukazano
        /\ message' = "restricted_edit" => orders' = orders
        /\ message' = "order_saved" =>
              \E id \in DOMAIN orders :
                 /\ orders[id].status = novyj
                 /\ orders'[id].status = novyj
                 /\ orders'[id].close_date = ne_ukazano

C25_ClientEditRestricted == [][ClientEditRestricted]_vars

\* a Client has pressed the edit button of an own order that is at work or
\* finished, and the restriction was shown
C25_Witness ==
    /\ ClientSession
    /\ message = "restricted_edit"
    /\ \E row \in orders_table :
          /\ orders[row.id].status \in {v_rabote, zavershyon}
          /\ orders[row.id].client_name = user[1].full_name
          /\ orders[row.id].close_date # ne_ukazano

\* a Client has saved the edit of an own new order, in a store that holds an
\* order with a close date, which only an Employee or the administrator writes
C25_WitnessSaved ==
    /\ ClientSession
    /\ message = "order_saved"
    /\ \E id \in DOMAIN orders :
          /\ orders[id].status = novyj
          /\ orders[id].client_name = user[1].full_name
          /\ orders[id].close_date = ne_ukazano
    /\ \E id \in DOMAIN orders : orders[id].close_date # ne_ukazano

(***************************************************************************)
(* C26: starting from an empty store, whatever is registered, added,       *)
(* edited and deleted, no login is in both account tables, no login is     *)
(* twice in one table, and the administrator's login "zorkez" is in        *)
(* neither; a registration or an addition that is rejected because the     *)
(* login is taken or reserved leaves both tables as they were.             *)
(***************************************************************************)
LoginsOf(table) == { r.username : r \in table }

UniqueLogins ==
    /\ LoginsOf(clients) \cap LoginsOf(employees) = {}
    /\ \A r1, r2 \in clients : r1.username = r2.username => r1 = r2
    /\ \A r1, r2 \in employees : r1.username = r2.username => r1 = r2
    /\ "zorkez" \notin LoginsOf(clients) \cup LoginsOf(employees)

RejectedLeavesTables ==
    message' \in {"taken", "reserved"} => UNCHANGED <<clients, employees>>

C26_UniqueLogins == [](UniqueLogins) /\ [][RejectedLeavesTables]_vars

\* at the login window a registration was rejected because the login is
\* taken, in a store that holds a client and an employee
C26_Witness ==
    /\ user = None
    /\ message = "taken"
    /\ LoginsOf(clients) = {"ann"}
    /\ LoginsOf(employees) = {"egor"}

\* an addition or registration with the login "zorkez" was rejected
C26_WitnessReserved ==
    /\ message = "reserved"
    /\ clients # {}

(***************************************************************************)
(* C29: in a Client session every row that the orders table shows is a     *)
(* stored order whose client_name is the full name of the logged-in        *)
(* client, after the table was populated, searched, reset, and after       *)
(* orders were added and edited: the table never shows more than the       *)
(* unfiltered table of this client, whatever was typed in the search form. *)
(***************************************************************************)
C29_ClientSeesOwnOrders ==
    ClientSession =>
        /\ \A row \in orders_table : row.client_name = user[1].full_name
        /\ orders_table \subseteq populate_orders_table(user[1], orders)

\* the client Ann after a search that found an order, in a store that also
\* holds an order of Anna, whose name contains "Ann" and whose close date is
\* a date
C29_Witness ==
    /\ ClientSession
    /\ user[1].full_name = n_Ann
    /\ is_filtered
    /\ orders_table # {}
    /\ \E id \in DOMAIN orders :
          /\ orders[id].client_name = n_Anna
          /\ Like(n_Ann, orders[id].client_name)
          /\ orders[id].close_date = toString(QDate(2024, 4, 20))

(***************************************************************************)
(* C30: delete_order deletes nothing: for every role and every status, the *)
(* step of delete_order leaves table requests as it was, so that the order *)
(* with the given id still exists; it shows the restriction and leaves the *)
(* orders table alone when a Client targets an order at work, and          *)
(* otherwise only populates the orders table again.                        *)
(***************************************************************************)
DeleteKeepsOrders ==
    \A id \in DOMAIN orders :
        delete_order(id) =>
            /\ orders' = orders
            /\ requests' = requests
            /\ id \in DOMAIN orders'
            /\ IF user[1].role = "Client" /\ orders[id].status = v_rabote
                   THEN /\ message' = "restricted_delete"
                        /\ orders_table' = orders_table
                   ELSE /\ message' = "none"
                        /\ orders_table' = populate_orders_table(user[1], orders)

====
